---- MODULE Spec2Model ----
(***************************************************************************)
(* The host side of figmaxxing and the page it drives:                     *)
(*   - the RPC dispatcher (__rpcProxy, registered by setupRpcProxy) with   *)
(*     the page that calls it, the 'tx:request' listeners (approvers) of   *)
(*     the event bus, the signer and the upstream chain RPC endpoint;      *)
(*   - the capture bridge: __submitCapture (setupFigmaProxy), the upstream *)
(*     capture endpoint, injectCaptureToolbar and its fetch interposer;    *)
(*   - the injected provider's EIP-6963 announcements;                     *)
(*   - the browser runtime: launchBrowser and the BrowserSession screen.   *)
(*                                                                         *)
(* JavaScript values are written as tuples of strings, tag first:          *)
(*   <<"undefined">>  <<"null">>  <<"string", s>>  <<"array", x1, ...>>    *)
(*   <<"object", json-text>>      <<"error", name, message>>               *)
(* A string may be given by its pieces: <<"string", p1, ..., pn>>.         *)
(***************************************************************************)
EXTENDS Integers, Sequences, FiniteSets, TLC

VARIABLES
    config,            \* CaptureConfig read by the dispatcher: [address, chain]
    provider,          \* the injected provider's properties, built from config
    provEmitted,       \* events the host has emitted on the injected provider
    listeners,         \* events.listenerCount('tx:request')
    requestIdCounter,  \* module-level counter of logger.ts:93
    calls,             \* every __rpcProxy invocation, in invocation order
    bus,               \* TxRequests emitted on 'tx:request', in emission order
    posts,             \* HTTP POSTs issued to chain.rpc, in issue order
    submits,           \* every __submitCapture invocation, in invocation order
    capEvents,         \* 'capture:*' events emitted on the event bus, in emission order
    context,           \* the browser context: exposed functions, observers, init scripts
    window,            \* the page's current document: its globals
    announced,         \* 'eip6963:announceProvider' events dispatched on the window
    fetches,           \* every in-page window.fetch call, in call order
    injects,           \* every injectCaptureToolbar invocation, in invocation order
    launch,            \* the launchBrowser invocation of the BrowserSession screen
    browser,           \* the browser process and its 'disconnected' event
    screen,            \* the BrowserSession component: its state, refs and effect
    completions,       \* the results handed to onComplete, in call order
    ethListeners,      \* the `listeners` map of the init script: event -> array
    emitStack,         \* the provider.emit calls in progress, innermost last
    ethCalls,          \* the on/once/removeListener/emit calls of the page, in call order
    invoked,           \* the invocations of page callbacks by provider.emit, in order
    sends,             \* every provider.sendAsync / send call, in call order
    walletFile,        \* ~/.figmaxxing/wallets.json
    storeOps,          \* the wallet store operations run, each with its outcome
    wizard,            \* the state of the wizard screen that is mounted
    app,               \* the App component: screen and collected answers
    setupMarker,       \* whether ~/.figmaxxing/setup_complete exists
    logger,            \* sessionFile and sessionStart of logger.ts:7-8, and the clock
    logFiles,          \* the files of ~/.figmaxxing/logs, by name
    popups             \* the pages the context has created, each with its frames

rpcVars == <<config, provider, provEmitted, listeners, requestIdCounter, calls, bus, posts>>
captureVars == <<submits, capEvents>>
pageVars == <<context, window, announced, fetches, injects>>
sessVars == <<launch, browser, screen, completions>>
\* What the RPC dispatcher never touches.
ethVars == <<ethListeners, emitStack, ethCalls, invoked>>
storeVars == <<walletFile, storeOps>>
wizardVars == <<wizard, app, setupMarker>>
logVars == <<logger, logFiles>>
toolVars == <<ethListeners, emitStack, ethCalls, invoked, sends, walletFile, storeOps,
              wizard, app, setupMarker, logger, logFiles, popups>>
bridgeVars == <<submits, capEvents, context, window, announced, fetches, injects,
                launch, browser, screen, completions,
                ethListeners, emitStack, ethCalls, invoked, sends, walletFile, storeOps,
                wizard, app, setupMarker, logger, logFiles, popups>>

vars == <<config, provider, provEmitted, listeners, requestIdCounter, calls, bus, posts,
         submits, capEvents, context, window, announced, fetches, injects,
         launch, browser, screen, completions,
         ethListeners, emitStack, ethCalls, invoked, sends, walletFile, storeOps,
         wizard, app, setupMarker, logger, logFiles, popups>>

----------------------------------------------------------------------------
(* Bounds of the model *)

MaxCalls == 2
MaxListeners == 2

----------------------------------------------------------------------------
(* JavaScript values *)

Undefined == <<"undefined">>
Null == <<"null">>
Str(s) == <<"string", s>>
EmptyArray == <<"array">>
Err(name, message) == <<"error", name, message>>
NoAct == [op |-> "none", arg |-> <<"undefined">>]

ErrName(e) == e[2]
ErrMessage(e) == e[3]

\* JavaScript truthiness of the values the model uses.
Truthy(v) ==
    CASE v[1] = "undefined" -> FALSE
      [] v[1] = "null" -> FALSE
      [] v[1] = "absent" -> FALSE
      [] v[1] = "string" -> v[2] # ""
      [] OTHER -> TRUE

\* params || [] and tx.to || '(contract creation)': the left operand when truthy.
OrElse(v, dflt) == IF Truthy(v) THEN v ELSE dflt

\* The i-th element of a params array (1-based), undefined when it is missing.
Item(params, i) == IF Len(params) >= i + 1 THEN Str(params[i + 1]) ELSE Undefined

DigitChar == <<"0", "1", "2", "3", "4", "5", "6", "7", "8", "9">>

RECURSIVE Digits(_)
Digits(n) == IF n < 10 THEN <<DigitChar[n + 1]>> ELSE Digits(n \div 10) \o <<DigitChar[(n % 10) + 1]>>

\* String(n) of a non-negative integer: a string value, one digit per element.
DecString(n) == <<"string">> \o Digits(n)

----------------------------------------------------------------------------
(* Session configuration *)

ADDRESS == "0xabc"

\* Two entries of the built-in chain registry.
Polygon == [id |-> 137, name |-> "Polygon", hexId |-> "0x89", rpc |-> "https://polygon-rpc.com"]
Optimism == [id |-> 10, name |-> "Optimism", hexId |-> "0xa", rpc |-> "https://mainnet.optimism.io"]
CHAINS == {Polygon, Optimism}

\* A chain no session is configured with: what a page asks to switch to.
OtherChain == [id |-> 1, name |-> "Ethereum", hexId |-> "0x1", rpc |-> "https://eth.llamarpc.com"]

Configs == {[address |-> ADDRESS, chain |-> c] : c \in CHAINS}

\* The properties the pre-document script gives window.ethereum.
ProviderOf(cfg) ==
    [chainId |-> cfg.chain.hexId,
     networkVersion |-> DecString(cfg.chain.id),
     selectedAddress |-> cfg.address]

----------------------------------------------------------------------------
(* Methods and the inputs the page sends *)

LocalMethods ==
    {"eth_accounts", "eth_requestAccounts", "eth_chainId", "net_version",
     "wallet_requestPermissions", "wallet_getPermissions",
     "wallet_switchEthereumChain", "wallet_addEthereumChain"}

SigningMethods == {"personal_sign", "eth_signTypedData_v4", "eth_sendTransaction"}

HELLO == "0x68656c6c6f"
TYPED_JSON == "{domain:{name:App},primaryType:Mail,message:{}}"
NOT_JSON == "not json"
TX_JSON == "{to:0xdef,value:0x0}"

\* The JSON texts of the model; JSON.parse throws on any other string.
JsonTexts == {TYPED_JSON, TX_JSON}

\* params as they reach __rpcProxy. A direct window.__rpcProxy(m) call passes
\* undefined; provider.request passes params || [].
ParamsOf(method) ==
    CASE method \in LocalMethods -> {Undefined, EmptyArray, <<"array", "0x1">>}
      [] method = "personal_sign" -> {Undefined, <<"array", HELLO, ADDRESS>>}
      [] method = "eth_signTypedData_v4" ->
            {Undefined, <<"array", ADDRESS, TYPED_JSON>>, <<"array", ADDRESS, NOT_JSON>>}
      [] method = "eth_sendTransaction" -> {Undefined, EmptyArray, <<"array", TX_JSON>>}
      [] OTHER -> {Undefined, EmptyArray, <<"array", ADDRESS, "latest">>}

\* Params the signing case can destructure and use.
WellFormed(method, params) ==
    CASE method = "personal_sign" -> params # Undefined /\ Truthy(Item(params, 1))
      [] method = "eth_signTypedData_v4" ->
            params # Undefined /\ Item(params, 2) \in {Str(t) : t \in JsonTexts}
      [] method = "eth_sendTransaction" -> params # Undefined /\ Truthy(Item(params, 1))
      [] OTHER -> TRUE

----------------------------------------------------------------------------
(* The dispatcher: the function setupRpcProxy registers as __rpcProxy *)

LocalAnswerHexNetVersion(method, cfg) ==
    CASE method \in {"eth_accounts", "eth_requestAccounts"} -> <<"array", cfg.address>>
      [] method \in {"eth_chainId", "net_version"} -> Str(cfg.chain.hexId)
      [] method \in {"wallet_requestPermissions", "wallet_getPermissions"} ->
            <<"array", "{parentCapability:eth_accounts}">>
      [] method \in {"wallet_switchEthereumChain", "wallet_addEthereumChain"} -> Null

\* The locally answered cases of the switch.
LocalAnswer(method, cfg) ==
    CASE method \in {"eth_accounts", "eth_requestAccounts"} -> <<"array", cfg.address>>
      [] method = "eth_chainId" -> Str(cfg.chain.hexId)
      [] method = "net_version" -> DecString(cfg.chain.id)
      [] method \in {"wallet_requestPermissions", "wallet_getPermissions"} ->
            <<"array", "{parentCapability:eth_accounts}">>
      [] method \in {"wallet_switchEthereumChain", "wallet_addEthereumChain"} -> Null

LocalEffectSwitching(method, params) ==
    IF method = "wallet_switchEthereumChain" /\ Truthy(Item(params, 1))
    THEN /\ config' = [config EXCEPT !.chain = OtherChain]
         /\ provider' = [provider EXCEPT !.chainId = OtherChain.hexId,
                                         !.networkVersion = DecString(OtherChain.id)]
         /\ provEmitted' = Append(provEmitted, <<"chainChanged", OtherChain.hexId>>)
    ELSE UNCHANGED <<config, provider, provEmitted>>

\* What the locally answered cases write to the session: nothing.
LocalEffect(method, params) == UNCHANGED <<config, provider, provEmitted>>

\* Error.prototype.toString of an error whose message is empty: its name.
StringOfError(e) == ErrName(e)

RethrowName(e) == Err("Error", StringOfError(e))

\* catch (err) { throw new Error(err.message || String(err)) }
Rethrow(e) == Err("Error", IF ErrMessage(e) # "" THEN ErrMessage(e) ELSE StringOfError(e))

HasApproverOffByOne(nListeners) == nListeners > 1

\* events.listenerCount('tx:request') > 0
HasApprover(nListeners) == nListeners > 0

SigningCaseParsesForApprover(method, params, nListeners) ==
    IF params = Undefined
    THEN [kind |-> "throw", value |-> Err("TypeError", "params is not iterable")]
    ELSE IF /\ method = "eth_signTypedData_v4"
            /\ HasApprover(nListeners)
            /\ Item(params, 2) \notin {Str(t) : t \in JsonTexts}
         THEN [kind |-> "throw", value |-> Err("SyntaxError", "Unexpected token")]
         ELSE IF HasApprover(nListeners)
              THEN IF method = "eth_sendTransaction" /\ Item(params, 1) = Undefined
                   THEN [kind |-> "throw",
                         value |-> Err("TypeError", "Cannot read properties of undefined")]
                   ELSE [kind |-> "approve", value |-> Undefined]
              ELSE [kind |-> "sign", value |-> Undefined]

\* What a signing case does before it first suspends:
\*   "throw"   an exception before any approval decision,
\*   "approve" a TxRequest is built and emitted, the call awaits its promise,
\*   "sign"    sign() is called and awaited.
SigningCase(method, params, nListeners) ==
    IF params = Undefined
    THEN [kind |-> "throw", value |-> Err("TypeError", "params is not iterable")]
    ELSE CASE method = "personal_sign" ->
                IF HasApprover(nListeners)
                THEN [kind |-> "approve", value |-> Undefined]
                ELSE [kind |-> "sign", value |-> Undefined]
           [] method = "eth_signTypedData_v4" ->
                IF Item(params, 2) \notin {Str(t) : t \in JsonTexts}
                THEN [kind |-> "throw", value |-> Err("SyntaxError", "Unexpected token")]
                ELSE IF HasApprover(nListeners)
                THEN [kind |-> "approve", value |-> Undefined]
                ELSE [kind |-> "sign", value |-> Undefined]
           [] method = "eth_sendTransaction" ->
                IF HasApprover(nListeners)
                THEN IF Item(params, 1) = Undefined
                     \* tx.data throws inside the promise executor, before the request exists
                     THEN [kind |-> "throw",
                           value |-> Err("TypeError", "Cannot read properties of undefined")]
                     ELSE [kind |-> "approve", value |-> Undefined]
                ELSE [kind |-> "sign", value |-> Undefined]

NextRequestIdStuck(counter) == IF counter = 0 THEN 1 ELSE counter

\* id: ++requestIdCounter
NextRequestId(counter) == counter + 1

\* The characters of the strings a page passes as a message or as a field of
\* a transaction, one per element.
Chars(s) ==
    CASE s = HELLO -> <<"0", "x", "6", "8", "6", "5", "6", "c", "6", "c", "6", "f">>
      [] s = "0x4869" -> <<"0", "x", "4", "8", "6", "9">>
      [] s = "0x680A69" -> <<"0", "x", "6", "8", "0", "A", "6", "9">>
      [] s = "0x6807" -> <<"0", "x", "6", "8", "0", "7">>
      [] s = "0xc3a9" -> <<"0", "x", "c", "3", "a", "9">>
      [] s = "0x" -> <<"0", "x">>
      [] s = "0xzz" -> <<"0", "x", "z", "z">>
      [] s = "0x6869zz" -> <<"0", "x", "6", "8", "6", "9", "z", "z">>
      [] s = "0x68697" -> <<"0", "x", "6", "8", "6", "9", "7">>
      [] s = "6869" -> <<"6", "8", "6", "9">>
      [] s = "0X6869" -> <<"0", "X", "6", "8", "6", "9">>
      [] s = "hi" -> <<"h", "i">>
      [] s = "" -> <<>>
      [] s = "0x0" -> <<"0", "x", "0">>
      [] s = "0x00" -> <<"0", "x", "0", "0">>
      [] s = "0xdef" -> <<"0", "x", "d", "e", "f">>
      [] s = "0x5208" -> <<"0", "x", "5", "2", "0", "8">>
      [] s = "0xa9059cbb" -> <<"0", "x", "a", "9", "0", "5", "9", "c", "b", "b">>
      [] s = "0xa9059cbb00000000000012" ->
            <<"0", "x", "a", "9", "0", "5", "9", "c", "b", "b", "0", "0", "0", "0", "0", "0",
              "0", "0", "0", "0", "0", "0", "1", "2">>
      [] s = "0xa9059cbb000000000000123" ->
            <<"0", "x", "a", "9", "0", "5", "9", "c", "b", "b", "0", "0", "0", "0", "0", "0",
              "0", "0", "0", "0", "0", "0", "1", "2", "3">>

\* The value of a hexadecimal digit of either case; 16 for any other character.
Nibble(c) ==
    CASE c \in {"0", "1", "2", "3", "4", "5", "6", "7", "8", "9"} ->
            (CHOOSE d \in 0..9 : DigitChar[d + 1] = c)
      [] c \in {"a", "A"} -> 10
      [] c \in {"b", "B"} -> 11
      [] c \in {"c", "C"} -> 12
      [] c \in {"d", "D"} -> 13
      [] c \in {"e", "E"} -> 14
      [] c \in {"f", "F"} -> 15
      [] OTHER -> 16

RECURSIVE BufferFromHex(_)
\* Buffer.from(text, 'hex'): one byte per pair of hex digits, ending at the
\* first pair that is not two hex digits; a last lone digit is dropped.
BufferFromHex(chars) ==
    IF Len(chars) < 2 \/ Nibble(chars[1]) > 15 \/ Nibble(chars[2]) > 15 THEN <<>>
    ELSE <<16 * Nibble(chars[1]) + Nibble(chars[2])>> \o BufferFromHex(SubSeq(chars, 3, Len(chars)))

REPLACEMENT == 65533

\* bytes.toString('utf8'), as character codes: an ASCII byte is its own
\* character; a byte of 0x80 and above belongs to a character outside ASCII
\* or is replaced by U+FFFD.
Utf8Text(bytes) == [n \in 1..Len(bytes) |-> IF bytes[n] < 128 THEN bytes[n] ELSE REPLACEMENT]

\* /^[\x20-\x7E\n\r\t]+$/.test(text)
IsPrintable(text) ==
    /\ Len(text) >= 1
    /\ \A n \in 1..Len(text) : (text[n] >= 32 /\ text[n] <= 126) \/ text[n] \in {9, 10, 13}

\* tryDecodeUtf8(hex) of logger.ts:241-253; a value that is no string makes
\* hex.startsWith throw, which the catch answers with the value itself.
tryDecodeUtf8(hex) ==
    IF hex[1] # "string" THEN hex
    ELSE LET chars == Chars(hex[2])
         IN  IF Len(chars) >= 2 /\ chars[1] = "0" /\ chars[2] = "x"
             THEN LET text == Utf8Text(BufferFromHex(SubSeq(chars, 3, Len(chars))))
                  IN  IF IsPrintable(text) THEN <<"text", text>> ELSE hex
             ELSE hex

\* The transaction objects a page passes to eth_sendTransaction, by the text
\* that stands for them: the fields to, value, data and gas, undefined when
\* the object does not have them.
TxObject(to, value, data, gas) == [to |-> to, value |-> value, data |-> data, gas |-> gas]
TxFields(text) ==
    CASE text = TX_JSON -> TxObject(Str("0xdef"), Str("0x0"), Undefined, Undefined)
      [] text = "{}" -> TxObject(Undefined, Undefined, Undefined, Undefined)
      [] text = "{to:'',value:'',data:'',gas:''}" -> TxObject(Str(""), Str(""), Str(""), Str(""))
      [] text = "{to:0xdef,value:0x00,data:0xa9059cbb,gas:0x5208}" ->
            TxObject(Str("0xdef"), Str("0x00"), Str("0xa9059cbb"), Str("0x5208"))
      [] text = "{value:0x5208,data:0x}" -> TxObject(Undefined, Str("0x5208"), Str("0x"), Undefined)
      [] text = "{value:hi,data:0xa9059cbb00000000000012}" ->
            TxObject(Undefined, Str("hi"), Str("0xa9059cbb00000000000012"), Undefined)
      [] text = "{value:0x,data:0xa9059cbb000000000000123}" ->
            TxObject(Undefined, Str("0x"), Str("0xa9059cbb000000000000123"), Undefined)

RECURSIVE NumberOf(_, _, _)
\* The value of digits in the given base, after acc.
NumberOf(chars, base, acc) ==
    IF chars = <<>> THEN acc
    ELSE NumberOf(Tail(chars), base, base * acc + Nibble(Head(chars)))

\* BigInt(text): a decimal numeral or 0x and hexadecimal digits; any other
\* text of the model makes it throw (ok is FALSE).
BigInt(chars) ==
    LET hex == Len(chars) >= 3 /\ chars[1] = "0" /\ chars[2] \in {"x", "X"}
        body == IF hex THEN SubSeq(chars, 3, Len(chars)) ELSE chars
        base == IF hex THEN 16 ELSE 10
    IN  IF body # <<>> /\ \A n \in 1..Len(body) : Nibble(body[n]) < base
        THEN [ok |-> TRUE, n |-> NumberOf(body, base, 0)]
        ELSE [ok |-> FALSE, n |-> 0]

\* formatWei(value) of logger.ts:255-264. `${Number(bi) / 1e18} ETH` is kept
\* as the amount in wei, except for zero, whose text is '0 ETH'.
formatWei(value) ==
    IF ~Truthy(value) \/ value = Str("0x0") \/ value = Str("0x") THEN Str("0 ETH")
    ELSE LET bi == BigInt(Chars(value[2]))
         IN  IF ~bi.ok THEN value
             ELSE IF bi.n = 0 THEN Str("0 ETH")
             ELSE <<"wei / 1e18 ETH", bi.n>>

\* String(n) of an integer, one character per element.
NumberChars(n) == IF n < 0 THEN <<"-">> \o Digits(0 - n) ELSE Digits(n)

\* data.slice(0, 20)
Slice20(chars) == SubSeq(chars, 1, IF Len(chars) < 20 THEN Len(chars) ELSE 20)

DataBytesOfLength(data) == Len(Chars(data[2])) \div 2

\* Math.floor((tx.data.length - 2) / 2)
DataBytes(data) == (Len(Chars(data[2])) - 2) \div 2

\* `${tx.data.slice(0, 20)}...  (${dataBytes} bytes)`, one character per
\* element but for the literal parts.
DataDisplay(data) ==
    <<"chars">> \o Slice20(Chars(data[2])) \o <<"...  (">> \o NumberChars(DataBytes(data))
        \o <<" bytes)">>

\* The JSON texts of the model, parsed: domain?.name, primaryType and
\* JSON.stringify(message, null, 2).
TypedFields(text) ==
    CASE text = TYPED_JSON -> [domain |-> Str("App"), primaryType |-> Str("Mail"), message |-> Str("{}")]
      [] text = TX_JSON -> [domain |-> Undefined, primaryType |-> Undefined, message |-> Undefined]

\* The display of the TxRequest each signing case builds (logger.ts:150, 171-175, 209-216).
Display(method, params) ==
    CASE method = "personal_sign" -> [message |-> tryDecodeUtf8(Item(params, 1))]
      [] method = "eth_signTypedData_v4" ->
            LET parsed == TypedFields(Item(params, 2)[2])
            IN  [domain |-> OrElse(parsed.domain, Str("Unknown")),
                 primaryType |-> OrElse(parsed.primaryType, Str("Unknown")),
                 data |-> parsed.message]
      [] method = "eth_sendTransaction" ->
            LET tx == TxFields(Item(params, 1)[2])
            IN  [to |-> OrElse(tx.to, Str("(contract creation)")),
                 value |-> formatWei(tx.value),
                 data |-> IF Truthy(tx.data) THEN DataDisplay(tx.data) ELSE Str("(none)"),
                 gas |-> OrElse(tx.gas, Str("auto"))]

\* The TxRequest handed to events.emit('tx:request', request).
TxRequest(id, method, params, call) ==
    [id |-> id, method |-> method, params |-> params, call |-> call,
     display |-> Display(method, params)]

EmitOutOfOrder(emitted, request) == <<request>> \o emitted

\* events.emit('tx:request', request): the request reaches the listeners now,
\* after every request emitted before it.
Emit(emitted, request) == Append(emitted, request)

ForwardBodyNoDefault(method, params) ==
    [jsonrpc |-> "2.0", id |-> 1, method |-> method, params |-> params]

\* body of the forwarded POST
ForwardBody(method, params) ==
    [jsonrpc |-> "2.0", id |-> 1, method |-> method, params |-> OrElse(params, EmptyArray)]

\* The fetch calls one forwarded dispatch issues.
ForwardPosts(cfg, method, params, call) ==
    <<[url |-> cfg.chain.rpc, httpMethod |-> "POST", body |-> ForwardBody(method, params),
       call |-> call]>>

\* The whole switch, up to the first suspension.
rpcProxy(method, params, cfg, nListeners) ==
    CASE method \in LocalMethods -> [kind |-> "return", value |-> LocalAnswer(method, cfg)]
      [] method \in SigningMethods -> SigningCase(method, params, nListeners)
      [] OTHER -> [kind |-> "fetch", value |-> Undefined]

----------------------------------------------------------------------------
(* The upstream endpoint, the signer and the promise of an approval *)

Absent == <<"absent">>
BOOM == <<"object", "{code:-32000,message:boom}">>

\* What fetch + response.json() can hand back.
Responses ==
    {[kind |-> k, result |-> Absent, error |-> Absent] : k \in {"netfail", "notjson", "null"}}
    \cup {[kind |-> "object", result |-> r, error |-> e] :
            r \in {Absent, Str("0x10")}, e \in {Absent, Null, BOOM}}

\* JSON.stringify of a JSON object (kept as its text): that text, as a string.
Stringify(v) == v[2]

\* const json = await response.json(); if (json.error) throw ...; return json.result
ForwardResult(resp) ==
    CASE resp.kind = "netfail" -> [ok |-> FALSE, value |-> Err("TypeError", "fetch failed")]
      [] resp.kind = "notjson" -> [ok |-> FALSE, value |-> Err("SyntaxError", "Unexpected token")]
      [] resp.kind = "null" ->
            [ok |-> FALSE, value |-> Err("TypeError", "Cannot read properties of null")]
      [] OTHER ->
            IF Truthy(resp.error)
            THEN [ok |-> FALSE, value |-> Err("Error", Stringify(resp.error))]
            ELSE [ok |-> TRUE, value |-> IF resp.result = Absent THEN Undefined ELSE resp.result]

\* What the sign closure of a signing case can settle with.
SignerOutcomes(method, params) ==
    CASE method = "personal_sign" -> {[ok |-> TRUE, value |-> Str("0xsig_personal")]}
      [] method = "eth_signTypedData_v4" -> {[ok |-> TRUE, value |-> Str("0xsig_typed")]}
      [] method = "eth_sendTransaction" ->
            IF Item(params, 1) = Undefined
            THEN {[ok |-> FALSE, value |-> Err("TypeError", "Cannot read properties of undefined")]}
            ELSE {[ok |-> TRUE, value |-> Str("0xtxhash")],
                  [ok |-> FALSE, value |-> Err("Error", "insufficient funds")]}

\* return await <promise>, inside try/catch: the value, or the re-thrown error.
Deliver(call, outcome) ==
    IF outcome.ok
    THEN [call EXCEPT !.status = "resolved", !.value = outcome.value]
    ELSE [call EXCEPT !.status = "rejected", !.value = Rethrow(outcome.value)]

\* What the approver may do with a TxRequest.
ResolveValues == {Str("0xSIG"), Undefined}
RejectErrors == {Err("Error", "User denied"), Err("Error", "")}

\* An act on the promise of a request: resolve(v), reject(e), or the listener
\* throwing e out of events.emit, which throws out of the promise executor.
Act(op, arg) == [op |-> op, arg |-> arg]

\* The outcome an act asks the promise for.
ActOutcome(act) == [ok |-> act.op = "resolve", value |-> act.arg]

SettleResigning(call, act) ==
    IF call.status # "pending" THEN call
    ELSE IF act.op = "resolve"
         THEN Deliver([call EXCEPT !.signerRuns = 1], [ok |-> TRUE, value |-> Str("0xsig_personal")])
         ELSE Deliver(call, ActOutcome(act))

SettleLastWins(call, act) == Deliver(call, ActOutcome(act))

\* resolve / reject of new Promise(...), and a throw inside its executor:
\* the promise settles once, later calls do nothing.
Settle(call, act) ==
    IF call.status # "pending" THEN call ELSE Deliver(call, ActOutcome(act))

----------------------------------------------------------------------------
(* The capture bridge, host side: __submitCapture (setupFigmaProxy)         *)

MaxSubmits == 2

\* A string as its pieces, and String.prototype.includes for one piece.
Text(pieces) == <<"string">> \o pieces
Includes(s, piece) == s[1] = "string" /\ \E i \in 2..Len(s) : s[i] = piece

SUBMIT_URL == Text(<<"https://", "mcp.figma.com", "/mcp/capture/abc/submit">>)
SUBMIT_DATA == "{\"html\":\"<body/>\"}"

\* Response bodies of the upstream capture endpoint.
BODY_S6 == "{\"claimUrl\":\"https://figma.com/file/XYZ\",\"nextCaptureId\":\"u-2\"}"
BODY_CLAIM == "{\"claimUrl\":\"https://figma.com/file/XYZ\"}"
BODY_NEXT == "{\"nextCaptureId\":\"u-2\"}"
BODY_EMPTY_CLAIM == "{\"claimUrl\":\"\",\"nextCaptureId\":\"u-3\"}"
BODY_OTHER_HOST == "{\"claimUrl\":\"https://example.com/c/1\"}"
BODY_EMPTY_OBJECT == "{}"
BODY_NULL == "null"
BODY_PROSE == "see https://www.figma.com/file/ABC or https://figma.com/file/DEF"
BODY_GATEWAY == "Bad Gateway"

Bodies ==
    {BODY_S6, BODY_CLAIM, BODY_NEXT, BODY_EMPTY_CLAIM, BODY_OTHER_HOST, BODY_EMPTY_OBJECT,
     BODY_NULL, BODY_PROSE, BODY_GATEWAY}

Parsed(kind, claimUrl, nextCaptureId) ==
    [kind |-> kind, claimUrl |-> claimUrl, nextCaptureId |-> nextCaptureId]

\* JSON.parse(text): the kind of value it yields ("SyntaxError" when it throws)
\* and, for an object, its claimUrl and nextCaptureId fields.
JsonParse(text) ==
    CASE text = BODY_S6 -> Parsed("object", <<"string", "https://figma.com/file/XYZ">>, <<"string", "u-2">>)
      [] text = BODY_CLAIM -> Parsed("object", <<"string", "https://figma.com/file/XYZ">>, <<"absent">>)
      [] text = BODY_NEXT -> Parsed("object", <<"absent">>, <<"string", "u-2">>)
      [] text = BODY_EMPTY_CLAIM -> Parsed("object", <<"string", "">>, <<"string", "u-3">>)
      [] text = BODY_OTHER_HOST -> Parsed("object", <<"string", "https://example.com/c/1">>, <<"absent">>)
      [] text = BODY_EMPTY_OBJECT -> Parsed("object", <<"absent">>, <<"absent">>)
      [] text = BODY_NULL -> Parsed("null", <<"absent">>, <<"absent">>)
      [] OTHER -> Parsed("SyntaxError", <<"absent">>, <<"absent">>)

\* text.match(/https?:\/\/(?:www\.)?figma\.com\/[^\s"'<>]+/): the first token,
\* null when there is none.
FigmaUrlMatch(text) ==
    CASE text \in {BODY_S6, BODY_CLAIM} -> <<"string", "https://figma.com/file/XYZ">>
      [] text = BODY_PROSE -> <<"string", "https://www.figma.com/file/ABC">>
      [] OTHER -> <<"null">>

CaptureEvents == {"capture:claimUrl", "capture:nextId", "capture:submitted"}
LISTENER_ERROR == <<"error", "Error", "listener failed">>

Emitted(event, arg) == [op |-> "emit", event |-> event, arg |-> arg]
Returned(text) == [op |-> "return", event |-> "", arg |-> <<"string", text>>]
Thrown(e) == [op |-> "throw", event |-> "", arg |-> e]

\* events?.emit(event, arg) when `go` holds: the emission, and whether a
\* listener threw out of it.
EmitIf(go, event, arg, throwers) ==
    [steps |-> IF go THEN <<Emitted(event, arg)>> ELSE <<>>,
     threw |-> go /\ event \in throwers]

\* The try block of logger.ts:467-476.
ParseBlock(text, throwers) ==
    LET data == JsonParse(text)
        claim == EmitIf(Truthy(data.claimUrl), "capture:claimUrl", data.claimUrl, throwers)
        next == EmitIf(~claim.threw /\ Truthy(data.nextCaptureId),
                       "capture:nextId", data.nextCaptureId, throwers)
    IN  IF data.kind \in {"SyntaxError", "null"}
        THEN [steps |-> <<>>, threw |-> TRUE]
        ELSE [steps |-> claim.steps \o next.steps, threw |-> claim.threw \/ next.threw]

\* The catch block of logger.ts:477-484.
FallbackBlock(text, throwers) ==
    EmitIf(FigmaUrlMatch(text) # <<"null">>, "capture:claimUrl", FigmaUrlMatch(text), throwers)

\* What one __submitCapture invocation does once the body text has arrived
\* (logger.ts:462-487): its emissions in order, ended by the return of the text
\* or by the error that leaves the function. throwers: the events a listener
\* of which throws.
SubmitRun(text, throwers) ==
    LET try == ParseBlock(text, throwers)
        catch == IF try.threw THEN FallbackBlock(text, throwers)
                 ELSE [steps |-> <<>>, threw |-> FALSE]
        last == EmitIf(~catch.threw, "capture:submitted", <<"string", text>>, throwers)
    IN  [regex |-> try.threw,
         steps |-> try.steps \o catch.steps \o last.steps
                   \o (IF catch.threw \/ last.threw THEN <<Thrown(LISTENER_ERROR)>>
                       ELSE <<Returned(text)>>)]

\* What fetch + response.text() can hand back (logger.ts:457-462).
CaptureResponses ==
    {[kind |-> "netfail", text |-> ""]} \cup {[kind |-> "text", text |-> b] : b \in Bodies}

\* One __submitCapture(targetUrl, dataStr) invocation.
\*   status  "fetching" | "returned" | "rejected"
\*   steps   what it emitted, ended by its return or throw
\*   regex   the fallback regex was consulted
NewSubmit(targetUrl, dataStr) ==
    [targetUrl |-> targetUrl, dataStr |-> dataStr, status |-> "fetching",
     response |-> [kind |-> "none", text |-> ""], throwers |-> {},
     steps |-> <<>>, regex |-> FALSE]

\* The page calls window.__submitCapture(targetUrl, dataStr): the POST leaves.
SubmitCapture(targetUrl, dataStr) ==
    /\ Len(submits) < MaxSubmits
    /\ submits' = Append(submits, NewSubmit(targetUrl, dataStr))
    /\ UNCHANGED capEvents
    /\ UNCHANGED <<rpcVars, toolVars, pageVars, sessVars>>

\* The screen's listener of logger.ts:320-322, run inside each emit of
\* 'capture:submitted' once the effect has attached it: setCaptureCount(c => c + 1)
\* (a no-op on an unmounted component).
OnCaptureSubmitted(scr, n) ==
    IF scr.listening /\ scr.mounted THEN [scr EXCEPT !.captureCount = @ + n] ELSE scr

EventsOf(i, steps) ==
    [k \in 1..Len(SelectSeq(steps, LAMBDA st : st.op = "emit")) |->
        [inv |-> i,
         event |-> SelectSeq(steps, LAMBDA st : st.op = "emit")[k].event,
         arg |-> SelectSeq(steps, LAMBDA st : st.op = "emit")[k].arg]]

\* The awaited fetch / response.text() of invocation i settles and the
\* invocation runs to its end.
CaptureResponds(i, resp, throwers) ==
    /\ submits[i].status = "fetching"
    /\ LET run == IF resp.kind = "netfail"
                  THEN [regex |-> FALSE, steps |-> <<Thrown(<<"error", "TypeError", "fetch failed">>)>>]
                  ELSE SubmitRun(resp.text, throwers)
       IN  /\ submits' = [submits EXCEPT ![i] =
                [@ EXCEPT !.response = resp, !.throwers = throwers,
                          !.steps = run.steps, !.regex = run.regex,
                          !.status = IF run.steps[Len(run.steps)].op = "return"
                                     THEN "returned" ELSE "rejected"]]
           /\ capEvents' = capEvents \o EventsOf(i, run.steps)
           /\ screen' = OnCaptureSubmitted(screen,
                    Len(SelectSeq(run.steps, LAMBDA st : st.op = "emit" /\ st.event = "capture:submitted")))
    /\ UNCHANGED <<rpcVars, toolVars, pageVars, launch, browser, completions>>

----------------------------------------------------------------------------
(* The page: its documents, the injected provider's announcements and the  *)
(* fetch interposer of injectCaptureToolbar                                *)

MaxDocs == 2
MaxRequests == 3
MaxFetches == 2
MaxInjects == 2

CAPTURE_ID == "abc"

\* The context as launchBrowser leaves it (part_002:24-29).
WiredContext ==
    [bindings |-> <<"__rpcProxy", "__submitCapture">>, popupObserver |-> TRUE,
     initScripts |-> 1, pages |-> 1]

NATIVE == <<"native">>
Wrapper(k) == <<"wrapper", k>>

\* A fresh document of the page. The init scripts of the context run in it
\* before any page script (part_002:44-119): they create one provider object,
\* install it as window.ethereum, listen for 'eip6963:requestProvider' and
\* arm the setTimeout(..., 0) announcement.
\*   fetch        window.fetch: NATIVE or the k-th wrapper installed
\*   wrappers     the wrappers installed, each with the originalFetch it saved
\*   figma        the capture script has defined window.figma
\*   evaluated    the texts page.evaluate has run in this document
\*   captureCalls the arguments of figma.captureForDesign calls
\*   scriptProvider the `provider` constant of the init script (0: no script)
NewDocument(ctx, n) ==
    [doc |-> n, fetch |-> NATIVE, wrappers |-> <<>>, fetchPatched |-> FALSE,
     figma |-> FALSE, evaluated |-> <<>>, captureCalls |-> <<>>, patchRuns |-> 0,
     scriptProvider |-> IF ctx.initScripts > 0 THEN n ELSE 0,
     ethereum |-> IF ctx.initScripts > 0 THEN n ELSE 0,
     requestListeners |-> ctx.initScripts,
     timer |-> IF ctx.initScripts > 0 THEN "pending" ELSE "none",
     requests |-> 0]

INFO == [uuid |-> "figmaxxing-injected-wallet", name |-> "MetaMask", rdns |-> "io.metamask"]

AnnouncementThawed(w, trigger) ==
    [doc |-> w.doc, trigger |-> trigger, type |-> "eip6963:announceProvider",
     frozen |-> FALSE, info |-> INFO, provider |-> w.scriptProvider]

\* new CustomEvent('eip6963:announceProvider', {detail: Object.freeze({info, provider})})
Announcement(w, trigger) ==
    [doc |-> w.doc, trigger |-> trigger, type |-> "eip6963:announceProvider",
     frozen |-> TRUE, info |-> INFO, provider |-> w.scriptProvider]

\* The page dispatches 'eip6963:requestProvider' on the window: the listener
\* of part_002:110-114 runs inside the dispatch.
RequestProvider ==
    /\ window.requests < MaxRequests
    /\ window' = [window EXCEPT !.requests = @ + 1]
    /\ announced' = IF window.requestListeners > 0
                    THEN Append(announced, Announcement(window, "request"))
                    ELSE announced
    /\ UNCHANGED <<context, fetches, injects>>
    /\ UNCHANGED <<rpcVars, toolVars, captureVars, sessVars>>

\* The setTimeout(..., 0) callback of part_002:115-119 runs.
AnnounceTimerFires ==
    /\ window.timer = "pending"
    /\ window' = [window EXCEPT !.timer = "fired"]
    /\ announced' = Append(announced, Announcement(window, "timer"))
    /\ UNCHANGED <<context, fetches, injects>>
    /\ UNCHANGED <<rpcVars, toolVars, captureVars, sessVars>>

\* The page navigates: a new document replaces the current one.
Navigate ==
    /\ window.doc < MaxDocs
    /\ window' = NewDocument(context, window.doc + 1)
    /\ UNCHANGED <<context, announced, fetches, injects>>
    /\ UNCHANGED <<rpcVars, toolVars, captureVars, sessVars>>

\* The url arguments a page hands to fetch: strings and one URL object.
OTHER_URL == Text(<<"https://", "api.example.com", "/v1/prices">>)
URL_OBJECT == <<"URL", "https://", "mcp.figma.com", "/mcp/capture/abc/submit">>
FetchUrls == {SUBMIT_URL, OTHER_URL, URL_OBJECT}
FetchOpts == {<<"undefined">>, <<"object", SUBMIT_DATA>>}

\* opts?.body
BodyOf(opts) == IF opts[1] = "object" THEN <<"string", opts[2]>> ELSE <<"undefined">>

RoutesToHostAnyType(url) == \E i \in 2..Len(url) : url[i] = "mcp.figma.com"

\* The interposer's test: typeof url === 'string' && url.includes('mcp.figma.com')
\* (logger.ts:529).
RoutesToHost(url) == Includes(url, "mcp.figma.com")

\* Calling the function value fn with (url, opts) in window w: the wrappers it
\* passes through, and where the call ends.
RECURSIVE CallFetch(_, _, _, _)
CallFetch(w, fn, url, opts) ==
    IF fn = NATIVE
    THEN [layers |-> 0, submit |-> <<>>, native |-> <<[url |-> url, opts |-> opts]>>]
    ELSE IF RoutesToHost(url)
         THEN [layers |-> 1, submit |-> <<[url |-> url, body |-> BodyOf(opts)]>>, native |-> <<>>]
         ELSE LET inner == CallFetch(w, w.wrappers[fn[2]].originalFetch, url, opts)
              IN  [inner EXCEPT !.layers = @ + 1]

InstallInterposerUnguarded(w) ==
    [w EXCEPT !.wrappers = Append(@, [originalFetch |-> w.fetch]),
              !.fetch = Wrapper(Len(w.wrappers) + 1),
              !.fetchPatched = TRUE]

\* logger.ts:526-539: wrap window.fetch unless window.__fetchPatched is set.
InstallInterposer(w) ==
    IF ~w.fetchPatched
    THEN [w EXCEPT !.wrappers = Append(@, [originalFetch |-> w.fetch]),
                   !.fetch = Wrapper(Len(w.wrappers) + 1),
                   !.fetchPatched = TRUE]
    ELSE w

\* logger.ts:543-547: window.figma?.captureForDesign({...}).catch(() => {})
CaptureForDesign(w, cid) ==
    IF w.figma
    THEN [w EXCEPT !.captureCalls = Append(@,
            [captureId |-> cid,
             endpoint |-> Text(<<"https://", "mcp.figma.com", "/mcp/capture/", cid, "/submit">>),
             selector |-> "body"])]
    ELSE w

\* A page script calls window.fetch(url, opts).
PageFetch(url, opts) ==
    /\ Len(fetches) < MaxFetches
    /\ LET run == CallFetch(window, window.fetch, url, opts)
       IN  /\ run.submit # <<>> => Len(submits) < MaxSubmits
           /\ fetches' = Append(fetches,
                [doc |-> window.doc, url |-> url, opts |-> opts, layers |-> run.layers,
                 native |-> run.native,
                 submit |-> IF run.submit = <<>> THEN 0 ELSE Len(submits) + 1])
           /\ submits' = IF run.submit = <<>> THEN submits
                         ELSE Append(submits, NewSubmit(run.submit[1].url, run.submit[1].body))
    /\ UNCHANGED <<context, window, announced, injects, capEvents>>
    /\ UNCHANGED <<rpcVars, toolVars, sessVars>>

\* What the interposer hands the caller of a routed fetch (logger.ts:530-534):
\* nothing while __submitCapture is pending, its rejection when it fails, and
\* new Response(responseText, {status: 200, headers: {'Content-Type': ...}}).
InterposerAnswer(sb) ==
    CASE sb.status = "fetching" -> [kind |-> "pending", status |-> 0, contentType |-> "", body |-> ""]
      [] sb.status = "rejected" -> [kind |-> "rejected", status |-> 0, contentType |-> "", body |-> ""]
      [] sb.status = "returned" ->
            [kind |-> "response", status |-> 200, contentType |-> "application/json",
             body |-> sb.response.text]

\* What context.request.get(...) + resp.text() can hand back (logger.ts:508-509):
\* an exception, the capture script, or the body of an HTTP error response
\* (the request context resolves for every status code).
CAPTURE_JS == "/* capture.js */ window.figma = {captureForDesign};"
NOT_FOUND == "<html><body>404 Not Found</body></html>"
ScriptOutcomes ==
    {[kind |-> "throws", status |-> 0, text |-> "net::ERR_INTERNET_DISCONNECTED"],
     [kind |-> "response", status |-> 200, text |-> CAPTURE_JS],
     [kind |-> "response", status |-> 404, text |-> NOT_FOUND]}

Retrieved(got) == got.kind = "response" /\ got.status = 200

NoResult == [success |-> FALSE, error |-> <<"undefined">>]
FETCH_FAILED == "Could not fetch Figma capture script from mcp.figma.com. Check your internet connection. "

\* One injectCaptureToolbar(page, context, captureId) invocation.
\*   pc  "get" | "evaluate" | "patch" | "returned" | "rejected"
NewInject(cid) ==
    [captureId |-> cid, pc |-> "get", got |-> [kind |-> "none", status |-> 0, text |-> ""],
     evaluated |-> FALSE, patched |-> FALSE, result |-> NoResult]

\* injectCaptureToolbar is called (logger.ts:499-508): the GET leaves.
InjectCaptureToolbar(cid) ==
    /\ Len(injects) < MaxInjects
    /\ injects' = Append(injects, NewInject(cid))
    /\ UNCHANGED <<context, window, announced, fetches>>
    /\ UNCHANGED <<rpcVars, toolVars, captureVars, sessVars>>

\* logger.ts:507-517: the awaited get / text settles.
ScriptRetrieved(i, got) ==
    /\ injects[i].pc = "get"
    /\ injects' = [injects EXCEPT ![i] =
            IF got.kind = "throws"
            THEN [@ EXCEPT !.got = got, !.pc = "returned",
                           !.result = [success |-> FALSE, error |-> Text(<<FETCH_FAILED, got.text>>)]]
            ELSE [@ EXCEPT !.got = got, !.pc = "evaluate"]]
    /\ UNCHANGED <<context, window, announced, fetches>>
    /\ UNCHANGED <<rpcVars, toolVars, captureVars, sessVars>>

\* logger.ts:520-521: page.evaluate(scriptText), then the one-second wait.
\* threw: the evaluation of the text throws in the page.
EvaluateScript(i, threw) ==
    /\ injects[i].pc = "evaluate"
    /\ window' = [window EXCEPT !.evaluated = Append(@, injects[i].got.text),
                                !.figma = @ \/ (~threw /\ injects[i].got.text = CAPTURE_JS)]
    /\ injects' = [injects EXCEPT ![i].evaluated = TRUE,
                                  ![i].pc = IF threw THEN "rejected" ELSE "patch"]
    /\ UNCHANGED <<context, announced, fetches>>
    /\ UNCHANGED <<rpcVars, toolVars, captureVars, sessVars>>

\* logger.ts:525-550: the second page.evaluate, then return {success: true}.
PatchPage(i) ==
    /\ injects[i].pc = "patch"
    /\ window' = [CaptureForDesign(InstallInterposer(window), injects[i].captureId)
                    EXCEPT !.patchRuns = @ + 1]
    /\ injects' = [injects EXCEPT ![i].patched = TRUE, ![i].pc = "returned",
                                  ![i].result = [success |-> TRUE, error |-> <<"undefined">>]]
    /\ UNCHANGED <<context, announced, fetches>>
    /\ UNCHANGED <<rpcVars, toolVars, captureVars, sessVars>>

----------------------------------------------------------------------------
(* The browser runtime: launchBrowser and the BrowserSession screen *)

EmptyContext == [bindings |-> <<>>, popupObserver |-> FALSE, initScripts |-> 0, pages |-> 0]

\* No page yet.
NoWindow == NewDocument(EmptyContext, 0)

LaunchStepsPageFirst ==
    <<"launch", "newContext", "exposeRpcProxy", "exposeSubmitCapture",
      "interceptFigmaPopups", "newPage", "addInitScript", "goto">>

\* The operations of launchBrowser in program order (part_002:20-30).
LaunchSteps ==
    <<"launch", "newContext", "exposeRpcProxy", "exposeSubmitCapture",
      "interceptFigmaPopups", "addInitScript", "newPage", "goto">>

\* interceptFigmaPopups is the one call launchBrowser does not await.
Awaited(step) == step # "interceptFigmaPopups"

\* browser.close(): closes an open browser, does nothing otherwise.
Close(br) == IF br.state = "open" THEN [br EXCEPT !.state = "closing"] ELSE br

\* What one operation of launchBrowser does to the browser, the context and
\* the page when it succeeds.
ApplyStep(step, br, ctx, win) ==
    CASE step = "launch" -> [browser |-> [br EXCEPT !.state = "open"], context |-> ctx, window |-> win]
      [] step = "newContext" -> [browser |-> br, context |-> EmptyContext, window |-> win]
      [] step = "exposeRpcProxy" ->
            [browser |-> br, context |-> [ctx EXCEPT !.bindings = Append(@, "__rpcProxy")], window |-> win]
      [] step = "exposeSubmitCapture" ->
            [browser |-> br, context |-> [ctx EXCEPT !.bindings = Append(@, "__submitCapture")], window |-> win]
      [] step = "interceptFigmaPopups" ->
            [browser |-> br, context |-> [ctx EXCEPT !.popupObserver = TRUE], window |-> win]
      [] step = "addInitScript" ->
            [browser |-> br, context |-> [ctx EXCEPT !.initScripts = @ + 1], window |-> win]
      [] step = "newPage" ->
            [browser |-> br, context |-> [ctx EXCEPT !.pages = @ + 1], window |-> win]
      [] step = "goto" ->
            [browser |-> br, context |-> ctx, window |-> NewDocument(ctx, win.doc + 1)]

\* The launchBrowser invocation: the next operation, the operations done.
Launching == [pc |-> 1, status |-> "running", done |-> <<>>]
Launched == [pc |-> Len(LaunchSteps) + 1, status |-> "resolved", done |-> LaunchSteps]

EffectAttachesApprover == <<"capture:submitted", "tx:request">>

\* The events the effect of BrowserSession attaches a listener for on its
\* emitter, eventsRef.current, the one it hands to launchBrowser (logger.ts:320-324).
EffectAttaches == <<"capture:submitted">>

\* events.listenerCount(event) on an emitter with these listeners.
ListenerCount(attached, event) == Len(SelectSeq(attached, LAMBDA e : e = event))

\* The BrowserSession component (logger.ts:299-307).
\*   listening  the effect has attached the 'capture:submitted' listener
\*   cancelled  the effect's `cancelled` flag, set by its cleanup
\*   handler    the 'disconnected' handler is registered on the browser
\*   awaiting   the injectCaptureToolbar invocation injectToolbar awaits (0: none)
\*   lastKey    the last input useInput handled
Mounted ==
    [mounted |-> TRUE, listening |-> TRUE, cancelled |-> FALSE, completedRef |-> FALSE,
     sessionRef |-> FALSE, handler |-> FALSE, status |-> "launching",
     launchError |-> <<"undefined">>, toolbarReady |-> FALSE, captureCount |-> 0,
     awaiting |-> 0, exitScheduled |-> FALSE, lastKey |-> ""]

\* The .then callback of logger.ts:325-336 when the effect is not cancelled.
SessionOpen(scr) ==
    [scr EXCEPT !.sessionRef = TRUE, !.status = "open", !.handler = TRUE]

FinishUnguarded(scr, br, comps, captureCount) ==
    [screen |-> [scr EXCEPT !.completedRef = TRUE],
     browser |-> IF scr.sessionRef THEN Close(br) ELSE br,
     completions |-> Append(comps, [success |-> captureCount > 0])]

\* finish() of logger.ts:309-314, with the captureCount its closure holds.
Finish(scr, br, comps, captureCount) ==
    IF scr.completedRef
    THEN [screen |-> scr, browser |-> br, completions |-> comps]
    ELSE [screen |-> [scr EXCEPT !.completedRef = TRUE],
          browser |-> IF scr.sessionRef THEN Close(br) ELSE br,
          completions |-> Append(comps, [success |-> captureCount > 0])]

\* One awaited operation of launchBrowser, other than the last, completes; an
\* operation that is not awaited runs with the one before it.
LaunchStep ==
    /\ launch.status = "running"
    /\ launch.pc < Len(LaunchSteps)
    /\ launch.pc = 1 \/ browser.state = "open"
    /\ LET first == ApplyStep(LaunchSteps[launch.pc], browser, context, window)
           sync == launch.pc + 1 < Len(LaunchSteps) /\ ~Awaited(LaunchSteps[launch.pc + 1])
           r == IF sync
                THEN ApplyStep(LaunchSteps[launch.pc + 1], first.browser, first.context, first.window)
                ELSE first
           n == IF sync THEN 2 ELSE 1
       IN  /\ browser' = r.browser
           /\ context' = r.context
           /\ window' = r.window
           /\ launch' = [launch EXCEPT !.pc = @ + n,
                            !.done = @ \o SubSeq(LaunchSteps, launch.pc, launch.pc + n - 1)]
    /\ UNCHANGED <<screen, completions, announced, fetches, injects>>
    /\ UNCHANGED <<rpcVars, toolVars, captureVars>>

\* The last operation completes, launchBrowser returns and the .then callback
\* of logger.ts:325-336 runs.
LaunchResolves ==
    /\ launch.status = "running"
    /\ launch.pc = Len(LaunchSteps)
    /\ browser.state = "open"
    /\ LET r == ApplyStep(LaunchSteps[launch.pc], browser, context, window)
       IN  /\ context' = r.context
           /\ window' = r.window
           /\ launch' = [launch EXCEPT !.pc = @ + 1, !.status = "resolved",
                            !.done = Append(@, LaunchSteps[launch.pc])]
           /\ browser' = IF screen.cancelled THEN Close(r.browser) ELSE r.browser
           /\ screen' = IF screen.cancelled THEN screen ELSE SessionOpen(screen)
    /\ UNCHANGED <<completions, announced, fetches, injects>>
    /\ UNCHANGED <<rpcVars, toolVars, captureVars>>

\* An awaited operation of launchBrowser rejects and the .catch callback of
\* logger.ts:337-341 runs.
LaunchStepFails ==
    /\ launch.status = "running"
    /\ launch.pc <= Len(LaunchSteps)
    /\ launch' = [launch EXCEPT !.status = "rejected"]
    /\ screen' = IF screen.cancelled THEN screen
                 ELSE [screen EXCEPT !.launchError = <<"string", "launch failed">>,
                                     !.exitScheduled = TRUE]
    /\ UNCHANGED <<browser, completions>>
    /\ UNCHANGED <<rpcVars, toolVars, captureVars, pageVars>>

\* useInput's handler of logger.ts:349-356 (with injectToolbar up to its await).
KeyPress(input) ==
    /\ screen.mounted
    /\ LET inject == screen.status = "open" /\ ~screen.toolbarReady /\ input \in {"c", "C"}
                     /\ screen.sessionRef
           quit == input \in {"q", "Q"}
           fin == IF quit THEN Finish(screen, browser, completions, screen.captureCount)
                  ELSE [screen |-> screen, browser |-> browser, completions |-> completions]
       IN  /\ inject => Len(injects) < MaxInjects
           /\ injects' = IF inject THEN Append(injects, NewInject(CAPTURE_ID)) ELSE injects
           /\ screen' = [fin.screen EXCEPT
                            !.lastKey = input,
                            !.status = IF inject THEN "injecting" ELSE @,
                            !.awaiting = IF inject THEN Len(injects) + 1 ELSE @]
           /\ browser' = fin.browser
           /\ completions' = fin.completions
    /\ UNCHANGED <<launch, context, window, announced, fetches>>
    /\ UNCHANGED <<rpcVars, toolVars, captureVars>>

\* injectToolbar after its await (logger.ts:364-370); state updates of an
\* unmounted component are dropped.
InjectToolbarResumes ==
    /\ screen.awaiting # 0
    /\ injects[screen.awaiting].pc = "returned"
    /\ screen' =
        IF ~screen.mounted THEN [screen EXCEPT !.awaiting = 0]
        ELSE IF injects[screen.awaiting].result.success
             THEN [screen EXCEPT !.awaiting = 0, !.status = "open", !.toolbarReady = TRUE]
             ELSE [screen EXCEPT !.awaiting = 0, !.status = "open",
                                 !.launchError = injects[screen.awaiting].result.error]
    /\ UNCHANGED <<launch, browser, completions>>
    /\ UNCHANGED <<rpcVars, toolVars, captureVars, pageVars>>

\* The user closes the browser window.
UserClosesWindow ==
    /\ browser.state = "open"
    /\ browser' = [browser EXCEPT !.state = "closing"]
    /\ UNCHANGED <<launch, screen, completions>>
    /\ UNCHANGED <<rpcVars, toolVars, captureVars, pageVars>>

\* The closing browser disconnects: 'disconnected' is emitted once and the
\* handler of logger.ts:333-335 runs if registered, with the finish of the
\* first render (captureCount 0).
Disconnected ==
    /\ browser.state = "closing"
    /\ LET closed == [browser EXCEPT !.state = "closed", !.disconnects = @ + 1]
           fin == IF screen.handler /\ ~screen.cancelled
                  THEN Finish(screen, closed, completions, 0)
                  ELSE [screen |-> screen, browser |-> closed, completions |-> completions]
       IN  /\ browser' = fin.browser
           /\ screen' = fin.screen
           /\ completions' = fin.completions
    /\ UNCHANGED launch
    /\ UNCHANGED <<rpcVars, toolVars, captureVars, pageVars>>

\* The workflow leaves the screen (after onComplete, or exit() after a launch
\* error): the effect's cleanup of logger.ts:343-346 runs.
Unmount ==
    /\ screen.mounted
    /\ completions # <<>> \/ screen.exitScheduled
    /\ screen' = [screen EXCEPT !.mounted = FALSE, !.cancelled = TRUE]
    /\ browser' = IF screen.sessionRef THEN Close(browser) ELSE browser
    /\ UNCHANGED <<launch, completions>>
    /\ UNCHANGED <<rpcVars, toolVars, captureVars, pageVars>>

----------------------------------------------------------------------------
(* State machine *)

NoOutcome == [ok |-> FALSE, value |-> Absent]
NoResponse == [kind |-> "none", result |-> Absent, error |-> Absent]

\* One __rpcProxy invocation as the page and the host see it.
\*   kind       "local" | "threw" | "approval" | "signing" | "forward"
\*   approver   a 'tx:request' listener was attached when the call was made
\*   status     of the promise the page holds: "pending" | "resolved" | "rejected"
\*   value      the value it resolved to, or the error it rejected with
\*   first      the first act on the promise of its TxRequest
\*   ignoredAct a resolve/reject arrived after that promise had settled
\*   signerRuns how often the dispatcher called sign()
\*   approverSigned a holder of the TxRequest called request.sign()
\*   signed     what the dispatcher's sign() settled with
\*   response   what the upstream endpoint answered
NewCall(method, params, kind) ==
    [method |-> method, params |-> params, kind |-> kind, approver |-> listeners > 0,
     status |-> "pending", value |-> Undefined,
     first |-> NoAct, ignoredAct |-> FALSE,
     signerRuns |-> 0, approverSigned |-> FALSE,
     signed |-> NoOutcome, response |-> NoResponse]

RpcInit(cfgs) ==
    /\ config \in cfgs
    /\ provider = ProviderOf(config)
    /\ provEmitted = <<>>
    /\ listeners = 0
    /\ requestIdCounter = 0
    /\ calls = <<>>
    /\ bus = <<>>
    /\ posts = <<>>

\* events.on('tx:request', listener)
AttachListener ==
    /\ listeners < MaxListeners
    /\ listeners' = listeners + 1
    /\ UNCHANGED <<config, provider, provEmitted, requestIdCounter, calls, bus, posts>>
    /\ UNCHANGED bridgeVars

\* events.off('tx:request', listener)
DetachListener ==
    /\ listeners > 0
    /\ listeners' = listeners - 1
    /\ UNCHANGED <<config, provider, provEmitted, requestIdCounter, calls, bus, posts>>
    /\ UNCHANGED bridgeVars

\* One __rpcProxy(method, params) invocation, run to its first suspension.
\* thrown: what a listener throws out of events.emit (NoAct: it returns).
CallRpcProxy(method, params, thrown) ==
    /\ Len(calls) < MaxCalls
    /\ LET eff == rpcProxy(method, params, config, listeners)
           me == Len(calls) + 1
       IN  CASE eff.kind = "return" ->
                  /\ calls' = Append(calls,
                        Deliver(NewCall(method, params, "local"), [ok |-> TRUE, value |-> eff.value]))
                  /\ LocalEffect(method, params)
                  /\ UNCHANGED <<requestIdCounter, bus, posts>>
             [] eff.kind = "throw" ->
                  /\ calls' = Append(calls,
                        Deliver(NewCall(method, params, "threw"), [ok |-> FALSE, value |-> eff.value]))
                  /\ UNCHANGED <<config, provider, provEmitted, requestIdCounter, bus, posts>>
             [] eff.kind = "approve" ->
                  LET id == NextRequestId(requestIdCounter)
                      call == NewCall(method, params, "approval")
                  IN  /\ requestIdCounter' = id
                      /\ bus' = Emit(bus, TxRequest(id, method, params, me))
                      /\ calls' = Append(calls,
                            IF thrown = NoAct THEN call
                            ELSE [Settle(call, thrown) EXCEPT !.first = thrown])
                      /\ UNCHANGED <<config, provider, provEmitted, posts>>
             [] eff.kind = "sign" ->
                  /\ calls' = Append(calls,
                        [NewCall(method, params, "signing") EXCEPT !.signerRuns = 1])
                  /\ UNCHANGED <<config, provider, provEmitted, requestIdCounter, bus, posts>>
             [] eff.kind = "fetch" ->
                  /\ posts' = posts \o ForwardPosts(config, method, params, me)
                  /\ calls' = Append(calls, NewCall(method, params, "forward"))
                  /\ UNCHANGED <<config, provider, provEmitted, requestIdCounter, bus>>
    /\ UNCHANGED listeners

\* The page calls window.__rpcProxy(method, params) itself.
Dispatch(method, params, thrown) ==
    /\ CallRpcProxy(method, params, thrown)
    /\ UNCHANGED bridgeVars

\* The awaited sign() of a call with no approver settles.
SignerSettles(i, outcome) ==
    /\ calls[i].kind = "signing"
    /\ calls[i].status = "pending"
    /\ outcome \in SignerOutcomes(calls[i].method, calls[i].params)
    /\ calls' = [calls EXCEPT ![i] = Deliver([@ EXCEPT !.signed = outcome], outcome)]
    /\ UNCHANGED <<config, provider, provEmitted, listeners, requestIdCounter, bus, posts>>
    /\ UNCHANGED bridgeVars

\* The awaited fetch / response.json() of a forwarded call settles.
UpstreamResponds(i, resp) ==
    /\ calls[i].kind = "forward"
    /\ calls[i].status = "pending"
    /\ calls' = [calls EXCEPT ![i] = Deliver([@ EXCEPT !.response = resp], ForwardResult(resp))]
    /\ UNCHANGED <<config, provider, provEmitted, listeners, requestIdCounter, bus, posts>>
    /\ UNCHANGED bridgeVars

\* A holder of bus[r] calls request.resolve(v) or request.reject(e).
ApproverActs(r, act) ==
    LET i == bus[r].call
    IN  /\ calls' = [calls EXCEPT ![i] =
                        [Settle(@, act) EXCEPT
                            !.first = IF @ = NoAct THEN act ELSE @,
                            !.ignoredAct = @ \/ calls[i].first # NoAct]]
        /\ UNCHANGED <<config, provider, provEmitted, listeners, requestIdCounter, bus, posts>>
        /\ UNCHANGED bridgeVars

\* A holder of bus[r] calls request.sign().
ApproverSigns(r) ==
    LET i == bus[r].call
    IN  /\ ~calls[i].approverSigned
        /\ calls' = [calls EXCEPT ![i].approverSigned = TRUE]
        /\ UNCHANGED <<config, provider, provEmitted, listeners, requestIdCounter, bus, posts>>
        /\ UNCHANGED bridgeVars

----------------------------------------------------------------------------
(* The injected provider: its listeners (part_002:45, 57-81)               *)

MaxListenerCalls == 3
MaxEmits == 2

ProviderEvents == {"accountsChanged", "chainChanged"}
Callbacks == {"f", "g"}

\* A function of the page, and the closure `w` that the k-th call of the
\* page, a once(event, fn), creates (part_002:63).
Fn(f) == <<"fn", f, 0, "">>
OnceWrapper(k, event, f) == <<"w", f, k, event>>

\* on(event, fn): an absent array and an empty one behave alike in every method.
On(ls, event, fn) == [ls EXCEPT ![event] = Append(@, fn)]

\* removeListener(event, fn): filter(f => f !== fn) builds a new array.
RemoveListener(ls, event, fn) == [ls EXCEPT ![event] = SelectSeq(@, LAMBDA x : x # fn)]

\* once(event, fn), made as the k-th call.
Once(ls, event, f, k) == On(ls, event, OnceWrapper(k, event, f))

\* What calling one entry of the array does before the page's function runs:
\* a wrapper removes itself from its event's array.
BeforeCallback(ls, entry) ==
    IF entry[1] = "w" THEN RemoveListener(ls, entry[4], entry) ELSE ls

\* Code of the page can run: at top level, or inside the listener that the
\* innermost emit has called and that has not returned.
\* What the listener methods of the provider leave alone.
ethFrame == <<rpcVars, captureVars, pageVars, sessVars, sends, storeVars, wizardVars,
              logVars, popups>>

\* The place in invoked of the listener whose code is running, 0 at top level.
Running == IF emitStack = <<>> THEN 0 ELSE emitStack[Len(emitStack)].cur

PageRuns == IF emitStack = <<>> THEN TRUE ELSE emitStack[Len(emitStack)].cur # 0

ListenerCalls == SelectSeq(ethCalls, LAMBDA c : c.op # "emit")
EmitCalls == SelectSeq(ethCalls, LAMBDA c : c.op = "emit")

ProviderOn(event, f) ==
    /\ PageRuns
    /\ Len(ListenerCalls) < MaxListenerCalls
    /\ ethCalls' = Append(ethCalls, [op |-> "on", event |-> event, fn |-> f, by |-> Running])
    /\ ethListeners' = On(ethListeners, event, Fn(f))
    /\ UNCHANGED <<emitStack, invoked>>
    /\ UNCHANGED ethFrame

ProviderOnce(event, f) ==
    /\ PageRuns
    /\ Len(ListenerCalls) < MaxListenerCalls
    /\ ethCalls' = Append(ethCalls, [op |-> "once", event |-> event, fn |-> f, by |-> Running])
    /\ ethListeners' = Once(ethListeners, event, f, Len(ethCalls) + 1)
    /\ UNCHANGED <<emitStack, invoked>>
    /\ UNCHANGED ethFrame

ProviderRemoveListener(event, f) ==
    /\ PageRuns
    /\ Len(ListenerCalls) < MaxListenerCalls
    /\ ethCalls' = Append(ethCalls, [op |-> "removeListener", event |-> event, fn |-> f, by |-> Running])
    /\ ethListeners' = RemoveListener(ethListeners, event, Fn(f))
    /\ UNCHANGED <<emitStack, invoked>>
    /\ UNCHANGED ethFrame

\* emit(event): forEach starts on the array the map holds now. forEach visits
\* the elements the array had when it started, and no method changes an
\* array in place except push, so the frame keeps that array's elements.
\* `call` is the emit's place in ethCalls and `cur` the place in invoked of
\* the listener that is running, 0 when none is.
ProviderEmit(event) ==
    /\ PageRuns
    /\ Len(EmitCalls) < MaxEmits
    /\ ethCalls' = Append(ethCalls, [op |-> "emit", event |-> event, fn |-> "", by |-> Running])
    /\ emitStack' = Append(emitStack, [event |-> event, arr |-> ethListeners[event], i |-> 0,
                            call |-> Len(ethCalls) + 1, cur |-> 0])
    /\ UNCHANGED <<ethListeners, invoked>>
    /\ UNCHANGED ethFrame

\* The innermost forEach calls its next element: the listener it called
\* before has returned or thrown.
EmitCallsNext ==
    /\ emitStack # <<>>
    /\ LET top == emitStack[Len(emitStack)]
       IN  /\ top.cur = 0
           /\ top.i < Len(top.arr)
           /\ LET entry == top.arr[top.i + 1]
              IN  /\ ethListeners' = BeforeCallback(ethListeners, entry)
                  /\ invoked' = Append(invoked,
                        [fn |-> entry[2], wrapper |-> entry[3], event |-> top.event,
                         depth |-> Len(emitStack), emit |-> top.call,
                         outcome |-> "running"])
           /\ emitStack' = [emitStack EXCEPT ![Len(emitStack)].i = @ + 1,
                                             ![Len(emitStack)].cur = Len(invoked) + 1]
    /\ UNCHANGED ethCalls
    /\ UNCHANGED ethFrame

\* The running listener returns to the forEach that called it.
ListenerReturns ==
    /\ emitStack # <<>>
    /\ emitStack[Len(emitStack)].cur # 0
    /\ invoked' = [invoked EXCEPT ![emitStack[Len(emitStack)].cur].outcome = "returned"]
    /\ emitStack' = [emitStack EXCEPT ![Len(emitStack)].cur = 0]
    /\ UNCHANGED <<ethListeners, ethCalls>>
    /\ UNCHANGED ethFrame

\* A throw of the running listener with no try around fn(...args): it leaves
\* the forEach and emit, and so every listener and emit below that called it.
Uncaught(stack, inv) ==
    [stack |-> <<>>,
     invoked |-> [n \in 1..Len(inv) |->
                    IF \E k \in 1..Len(stack) : stack[k].cur = n
                    THEN [inv[n] EXCEPT !.outcome = "escaped"]
                    ELSE inv[n]]]

\* try { fn(...args); } catch(e) { console.error(e); } (part_002:77): the
\* throw of the running listener ends in the catch of the forEach that
\* called it, which goes on.
Caught(stack, inv) ==
    [stack |-> [stack EXCEPT ![Len(stack)].cur = 0],
     invoked |-> [inv EXCEPT ![stack[Len(stack)].cur].outcome = "caught"]]

\* The running listener throws.
ListenerThrows ==
    /\ emitStack # <<>>
    /\ emitStack[Len(emitStack)].cur # 0
    /\ emitStack' = Caught(emitStack, invoked).stack
    /\ invoked' = Caught(emitStack, invoked).invoked
    /\ UNCHANGED <<ethListeners, ethCalls>>
    /\ UNCHANGED ethFrame

\* The innermost forEach has called every element: emit returns.
EmitReturns ==
    /\ emitStack # <<>>
    /\ LET top == emitStack[Len(emitStack)]
       IN  top.i = Len(top.arr) /\ top.cur = 0
    /\ emitStack' = SubSeq(emitStack, 1, Len(emitStack) - 1)
    /\ UNCHANGED <<ethListeners, ethCalls, invoked>>
    /\ UNCHANGED ethFrame

----------------------------------------------------------------------------
(* The injected provider: request, sendAsync, send (part_002:83-94)        *)

MaxSends == 2

Payload(id, method, params) == <<"object", id, method, params>>
PayloadId(m) == m[2]
PayloadMethod(m) == m[3]
PayloadParams(m) == m[4]

\* What the page passes as callback: a function that returns, or one that throws.
CallbackKinds == {"returns", "throws"}
NoCallback == "none"
CB_ERROR == <<"error", "Error", "callback failed">>

\* One sendAsync / send call.
\*   call     the __rpcProxy invocation its request made
\*   cb       the callback passed
\*   cbCalls  the argument lists the callback was invoked with, in order
\*   state    "waiting" for the request | "done"
\*   unhandled the chain ended in a rejection no handler takes
NewSend(via, payload, cb, call) ==
    [via |-> via, payload |-> payload, cb |-> cb, call |-> call, cbCalls |-> <<>>,
     state |-> "waiting", unhandled |-> FALSE]

\* What sendAsync, send and the reactions of their promises leave alone.
sendFrame == <<captureVars, pageVars, sessVars, ethVars, storeVars, wizardVars,
               logVars, popups>>

\* request({method, params}): window.__rpcProxy(method, params || []).
Request(method, params) == CallRpcProxy(method, OrElse(params, EmptyArray), NoAct)

\* sendAsync(payload, cb)
SendAsync(payload, cb) ==
    /\ Len(sends) < MaxSends
    /\ Request(PayloadMethod(payload), PayloadParams(payload))
    /\ sends' = Append(sends, NewSend("sendAsync", payload, cb, Len(calls) + 1))
    /\ UNCHANGED sendFrame

\* send(m, p)
Send(m, p, cb) ==
    /\ Len(sends) < MaxSends
    /\ IF m[1] = "string"
       THEN /\ Request(m[2], p)
            /\ sends' = Append(sends, NewSend("request", m, NoCallback, Len(calls) + 1))
       ELSE /\ Request(PayloadMethod(m), PayloadParams(m))
            /\ sends' = Append(sends, NewSend("sendAsync", m, cb, Len(calls) + 1))
    /\ UNCHANGED sendFrame

\* .then(result => cb(null, {id, jsonrpc: '2.0', result})).catch(error => cb(error))
\* run on the settled request: the argument lists cb is invoked with, and
\* whether the chain ends rejected.
CallbackChain(payload, cb, status, value) ==
    LET ok == [error |-> Null, response |-> <<"object", PayloadId(payload), "2.0", value>>]
        thenThrows == status = "resolved" /\ cb = "throws"
        caught == IF status = "rejected" THEN value ELSE CB_ERROR
        catchRuns == status = "rejected" \/ thenThrows
    IN  [cbCalls |-> (IF status = "resolved" THEN <<ok>> ELSE <<>>)
                     \o (IF catchRuns THEN <<[error |-> caught, response |-> Undefined]>> ELSE <<>>),
         unhandled |-> catchRuns /\ cb = "throws"]

\* The request of sends[k] has settled: the reactions attached to it run.
SendSettles(k) ==
    /\ sends[k].state = "waiting"
    /\ calls[sends[k].call].status # "pending"
    /\ LET c == calls[sends[k].call]
           run == IF sends[k].via = "sendAsync"
                  THEN CallbackChain(sends[k].payload, sends[k].cb, c.status, c.value)
                  ELSE [cbCalls |-> <<>>, unhandled |-> FALSE]
       IN  sends' = [sends EXCEPT ![k] =
                [@ EXCEPT !.state = "done", !.cbCalls = run.cbCalls,
                          !.unhandled = run.unhandled]]
    /\ UNCHANGED rpcVars
    /\ UNCHANGED sendFrame

----------------------------------------------------------------------------
(* The wallet store (wallet.ts) and the file wallets.json                  *)

MaxStoreOps == 2

\* A private key as text: its first two characters, the number of characters
\* after them, whether those are all hexadecimal digits, and the number they
\* spell ("zero": not a valid secp256k1 key).
KeyText(prefix, digits, hex, n) == [prefix |-> prefix, digits |-> digits, hex |-> hex, n |-> n]

\* What generatePrivateKey can return, and what the user can paste.
GeneratedKeys == {KeyText("0x", 64, TRUE, n) : n \in {"g1", "g2", "g3"}}
PastedKeys ==
    {KeyText("0x", 64, TRUE, "u1"), KeyText("0x", 64, TRUE, "zero"),
     KeyText("0x", 63, TRUE, "u2"), KeyText("", 64, TRUE, "u3"),
     KeyText("0x", 64, FALSE, "u4")}
NOT_A_KEY == KeyText("no", 2, FALSE, "pe")

\* /^0x[0-9a-fA-F]{64}$/.test(privateKey)
MatchesKeyPattern(key) == key.prefix = "0x" /\ key.digits = 64 /\ key.hex

\* privateKeyToAccount(privateKey).address; it throws for a key outside the curve's range.
OnCurve(key) == MatchesKeyPattern(key) /\ key.n # "zero"
DeriveAddress(key) == <<"address of", key.n>>
OTHER_ADDRESS == <<"address of", "nobody">>

\* An element of the array a wallets.json holds.
WalletEntry(name, address, privateKey) ==
    [type |-> "wallet", name |-> name, address |-> address, privateKey |-> privateKey]
NumberEntry == [type |-> "number", name |-> "", address |-> Undefined, privateKey |-> NOT_A_KEY]
NullEntry == [type |-> "null", name |-> "", address |-> Undefined, privateKey |-> NOT_A_KEY]

\* The file: absent, present but unreadable, text that is no JSON, or JSON.
FileAbsent == [kind |-> "absent", type |-> "", items |-> <<>>]
FileUnreadable == [kind |-> "unreadable", type |-> "", items |-> <<>>]
FileGarbage == [kind |-> "garbage", type |-> "", items |-> <<>>]
FileJson(type, items) == [kind |-> "json", type |-> type, items |-> items]

OldWallet == WalletEntry("Old", DeriveAddress(KeyText("0x", 64, TRUE, "o1")), KeyText("0x", 64, TRUE, "o1"))
OtherWallet == WalletEntry("Other", DeriveAddress(KeyText("0x", 64, TRUE, "o2")), KeyText("0x", 64, TRUE, "o2"))
EditedWallet == WalletEntry("Edited", OTHER_ADDRESS, NOT_A_KEY)

\* Files the program itself can have written.
WrittenFiles ==
    {FileAbsent, FileJson("array", <<>>), FileJson("array", <<OldWallet>>),
     FileJson("array", <<OldWallet, OtherWallet, OldWallet>>)}

\* Files as an editor, a crash or another program can leave them.
ForeignFiles ==
    {FileUnreadable, FileGarbage, FileJson("null", <<>>), FileJson("object", <<>>),
     FileJson("array", <<NumberEntry>>), FileJson("array", <<NullEntry>>),
     FileJson("array", <<EditedWallet>>)}

CORRUPT == <<"error", "Error", "Could not read wallet file at ~/.figmaxxing/wallets.json. Delete it and create a new wallet.">>
INVALID_KEY == <<"error", "Error", "Invalid private key. Must be 0x followed by 64 hex characters.">>
TYPE_ERROR == <<"error", "TypeError", "">>
KEY_RANGE_ERROR == <<"error", "Error", "invalid private key">>

\* The outcome of one operation and the file it leaves. A returned value is
\* written as the JSON value it is; a single wallet as the array of it.
StoreReturn(value, file) == [kind |-> "return", value |-> value, error |-> Undefined, file |-> file]
StoreThrow(error, file) == [kind |-> "throw", value |-> FileAbsent, error |-> error, file |-> file]

\* loadWallets(): the value JSON.parse hands back is returned as it is.
loadWallets(file) ==
    CASE file.kind = "absent" -> StoreReturn(FileJson("array", <<>>), file)
      [] file.kind \in {"unreadable", "garbage"} -> StoreThrow(CORRUPT, file)
      [] OTHER -> StoreReturn(file, file)

\* saveWallets(wallets): writeFileSync(path, JSON.stringify(wallets, null, 2))
saveWallets(wallets) == FileJson(wallets.type, wallets.items)

PushFront(wallets, wallet) ==
    IF wallets.type = "array"
    THEN [ok |-> TRUE, wallets |-> [wallets EXCEPT !.items = <<wallet>> \o @]]
    ELSE [ok |-> FALSE, wallets |-> wallets]

\* wallets.push(wallet): a TypeError unless the loaded value is an array.
Push(wallets, wallet) ==
    IF wallets.type = "array"
    THEN [ok |-> TRUE, wallets |-> [wallets EXCEPT !.items = Append(@, wallet)]]
    ELSE [ok |-> FALSE, wallets |-> wallets]

\* The tail of createWallet and importWallet: load, push, save, return.
AddWallet(file, wallet) ==
    LET loaded == loadWallets(file)
        pushed == Push(loaded.value, wallet)
    IN  IF loaded.kind = "throw" THEN loaded
        ELSE IF ~pushed.ok THEN StoreThrow(TYPE_ERROR, file)
        ELSE StoreReturn(FileJson("array", <<wallet>>), saveWallets(pushed.wallets))

\* createWallet(name), with the key generatePrivateKey returned.
createWallet(file, name, key) == AddWallet(file, WalletEntry(name, DeriveAddress(key), key))

\* importWallet(name, privateKey)
importWallet(file, name, privateKey) ==
    IF ~MatchesKeyPattern(privateKey) THEN StoreThrow(INVALID_KEY, file)
    ELSE IF ~OnCurve(privateKey) THEN StoreThrow(KEY_RANGE_ERROR, file)
    ELSE AddWallet(file, WalletEntry(name, DeriveAddress(privateKey), privateKey))

createEphemeralSaved(file, key) == createWallet(file, "Ephemeral", key)

\* createEphemeralWallet(), with the key generatePrivateKey returned.
createEphemeralWallet(file, key) ==
    StoreReturn(FileJson("array", <<WalletEntry("Ephemeral", DeriveAddress(key), key)>>), file)

\* filter(w => w.address !== address): reading .address of null throws.
KeepsOthers(wallets, address) == SelectSeq(wallets.items, LAMBDA w : w.address # address)

\* deleteWallet(address)
deleteWallet(file, address) ==
    LET loaded == loadWallets(file)
    IN  IF loaded.kind = "throw" THEN loaded
        ELSE IF loaded.value.type # "array" THEN StoreThrow(TYPE_ERROR, file)
        ELSE IF \E n \in 1..Len(loaded.value.items) : loaded.value.items[n].type = "null"
             THEN StoreThrow(TYPE_ERROR, file)
        ELSE StoreReturn(FileJson("array", <<>>),
                         saveWallets([loaded.value EXCEPT !.items = KeepsOthers(loaded.value, address)]))

\* The persisted array: empty while there is no file.
WalletsOf(file) == IF file.kind = "json" /\ file.type = "array" THEN file.items ELSE <<>>

\* Keys generatePrivateKey has not returned before and that no file holds:
\* a key is 256 random bits.
KeysIn(file) == {file.items[n].privateKey : n \in 1..Len(file.items)}
FreshKeys == {k \in GeneratedKeys : k \notin KeysIn(walletFile)
                                    /\ \A n \in 1..Len(storeOps) : storeOps[n].key # k}

storeFrame == <<rpcVars, captureVars, pageVars, sessVars, ethVars, sends, wizardVars,
                logVars, popups>>

\* One operation of the store, run to its end: the file before, the outcome, the file after.
StoreOp(op, name, key, address, out) ==
    /\ Len(storeOps) < MaxStoreOps
    /\ storeOps' = Append(storeOps,
            [op |-> op, name |-> name, key |-> key, address |-> address,
             before |-> walletFile, kind |-> out.kind, value |-> out.value,
             error |-> out.error, after |-> out.file])
    /\ walletFile' = out.file

LoadWallets ==
    /\ StoreOp("load", "", NOT_A_KEY, Undefined, loadWallets(walletFile))
    /\ UNCHANGED storeFrame

CreateWallet(name) ==
    /\ \E key \in FreshKeys :
            StoreOp("create", name, key, Undefined, createWallet(walletFile, name, key))
    /\ UNCHANGED storeFrame

ImportWallet(name, privateKey) ==
    /\ StoreOp("import", name, privateKey, Undefined, importWallet(walletFile, name, privateKey))
    /\ UNCHANGED storeFrame

CreateEphemeralWallet ==
    /\ \E key \in FreshKeys :
            StoreOp("createEphemeral", "Ephemeral", key, Undefined,
                    createEphemeralWallet(walletFile, key))
    /\ UNCHANGED storeFrame

DeleteWallet(address) ==
    /\ StoreOp("delete", "", NOT_A_KEY, address, deleteWallet(walletFile, address))
    /\ UNCHANGED storeFrame

----------------------------------------------------------------------------
(* The workflow: App and its wizard screens                                *)

StartsWith(s, prefix) == Len(s) >= 2 /\ s[2] = prefix

\* value.startsWith('http://') || value.startsWith('https://')
IsHttpUrl(value) == StartsWith(value, "http://") \/ StartsWith(value, "https://")

HexChar == <<"0", "1", "2", "3", "4", "5", "6", "7", "8", "9", "a", "b", "c", "d", "e", "f">>

RECURSIVE HexDigits(_)
\* n.toString(16) of a positive integer, one character per element.
HexDigits(n) ==
    IF n < 16 THEN <<HexChar[n + 1]>> ELSE HexDigits(n \div 16) \o <<HexChar[(n % 16) + 1]>>

DigitValue(c) == CHOOSE d \in 0..9 : DigitChar[d + 1] = c
IsDigit(c) == \E d \in 0..9 : DigitChar[d + 1] = c

RECURSIVE LeadingDigits(_, _)
\* The value of the longest run of decimal digits at the start of chars, after acc.
LeadingDigits(chars, acc) ==
    IF chars = <<>> \/ ~IsDigit(Head(chars)) THEN acc
    ELSE LeadingDigits(Tail(chars), 10 * acc + DigitValue(Head(chars)))

RECURSIVE TrimStart(_)
TrimStart(chars) ==
    IF chars # <<>> /\ Head(chars) = " " THEN TrimStart(Tail(chars)) ELSE chars

\* parseInt(value, 10): leading white space, an optional sign, then digits up
\* to the first other character; NaN without a digit.
ParseInt(value) ==
    LET t == TrimStart(value)
        signed == t # <<>> /\ Head(t) \in {"+", "-"}
        body == IF signed THEN Tail(t) ELSE t
    IN  IF body = <<>> \/ ~IsDigit(Head(body))
        THEN [nan |-> TRUE, negative |-> FALSE, n |-> 0]
        ELSE [nan |-> FALSE, negative |-> signed /\ Head(t) = "-", n |-> LeadingDigits(body, 0)]

\* isNaN(id) || id <= 0
NotPositive(id) == id.nan \/ id.negative \/ id.n = 0

NoChain == [type |-> "null", id |-> 0, name |-> <<>>, hexId |-> <<>>, rpc |-> Text(<<>>)]
Chain(id, name, hexId, rpc) ==
    [type |-> "chain", id |-> id, name |-> name, hexId |-> hexId, rpc |-> rpc]

\* CHAINS of chains.ts:3-11, hexId spelled character by character.
Registry ==
    <<Chain(1, <<"Ethereum">>, <<"0", "x", "1">>, Text(<<"https://", "eth.llamarpc.com">>)),
      Chain(42161, <<"Arbitrum">>, <<"0", "x", "a", "4", "b", "1">>, Text(<<"https://", "arb1.arbitrum.io/rpc">>)),
      Chain(8453, <<"Base">>, <<"0", "x", "2", "1", "0", "5">>, Text(<<"https://", "mainnet.base.org">>)),
      Chain(137, <<"Polygon">>, <<"0", "x", "8", "9">>, Text(<<"https://", "polygon-rpc.com">>)),
      Chain(10, <<"Optimism">>, <<"0", "x", "a">>, Text(<<"https://", "mainnet.optimism.io">>)),
      Chain(56, <<"BNB Chain">>, <<"0", "x", "3", "8">>, Text(<<"https://", "bsc-dataseed.binance.org">>)),
      Chain(43114, <<"Avalanche">>, <<"0", "x", "a", "8", "6", "a">>, Text(<<"https://", "api.avax.network/ext/bc/C/rpc">>))>>

\* The chain handleCustomRpcSubmit builds (part_004:51-56).
CustomChain(id, rpc) ==
    Chain(id, <<"Custom (">> \o Digits(id) \o <<")">>, <<"0", "x">> \o HexDigits(id), rpc)

\* What the user can type as a chain id and as a URL.
IdTexts ==
    {<<"5">>, <<"1", "3", "7">>, <<"2", "5", "5">>, <<"0">>, <<"-", "5">>, <<>>,
     <<"a", "b">>, <<"1", "2", "x">>, <<" ", "7">>, <<"0", "x", "1", "0">>}
UrlTexts ==
    {Text(<<"https://", "app.example">>), Text(<<"http://", "localhost:3000">>),
     Text(<<"ftp://", "app.example">>), Text(<<"app.example">>), Text(<<>>),
     Text(<<" ", "https://", "app.example">>), Text(<<"HTTPS://", "app.example">>)}

\* The state each screen has when App mounts it.
WalletSelectorState ==
    [screen |-> "wallet", subScreen |-> "list", createdWallet |-> NullEntry,
     isEphemeral |-> FALSE, error |-> <<"string", "">>]
ChainPickerState == [screen |-> "chain", subScreen |-> "list", customId |-> <<>>, error |-> ""]
UrlInputState == [screen |-> "url", error |-> ""]
FigmaDestinationState ==
    [screen |-> "figma", subScreen |-> "selectMode", mode |-> "newFile",
     selectedPlanKey |-> "", error |-> ""]
CaptureIdScreenState == [screen |-> "captureId", status |-> "loading", captureId |-> "", timer |-> "none"]
\* SetupWizard as mounted (part_000:61-65), its first effect not yet run.
\*   pc       where runFrom stands: at an await, returned, or rejected
\*   install  the `npx playwright install chromium` process of the second effect
\*   timer    the setTimeout(() => onComplete(), 800) of finish
INITIAL_CHECKS == [i \in 1..5 |-> [status |-> "pending", detail |-> ""]]
SetupWizardState ==
    [screen |-> "setup", phase |-> "running", checks |-> INITIAL_CHECKS, fatalMessage |-> "",
     pc |-> "effect", install |-> "none", timer |-> "none", exited |-> FALSE]
BrowserSessionState == [screen |-> "browser"]
ResultScreenState == [screen |-> "result"]
Crashed == [screen |-> "crashed"]

NoDestination == [mode |-> "none", fileKey |-> "", planKey |-> "", fileName |-> ""]

\* The state of App (browser-session.tsx:144-150), with the order in which
\* the screens completed and the config BrowserSession was mounted with.
AppState(first) ==
    [screen |-> first, wallet |-> NullEntry, chain |-> NoChain, url |-> Text(<<>>),
     figmaDest |-> NoDestination, captureId |-> "", completed |-> <<>>,
     launchedWith |-> <<>>]

ConfigOfFixedEndpoint(a) ==
    [wallet |-> a.wallet, chain |-> a.chain, url |-> a.url, captureId |-> a.captureId,
     figmaEndpoint |-> SUBMIT_URL]

\* The config prop of browser-session.tsx:211-217.
ConfigOf(a) ==
    [wallet |-> a.wallet, chain |-> a.chain, url |-> a.url, captureId |-> a.captureId,
     figmaEndpoint |-> Text(<<"https://", "mcp.figma.com", "/mcp/capture/", a.captureId, "/submit">>)]

\* What the wizard screens leave alone.
wizardFrame == <<captureVars, pageVars, ethVars, sends, logVars, popups, setupMarker>>
runtimeFrame == <<rpcVars, sessVars>>

\* A screen calls the onComplete App gave it: App stores the answer and
\* renders the next screen.
Completes(field, value, next, nextState) ==
    /\ app' = [app EXCEPT ![field] = value, !.screen = next,
                          !.completed = Append(@, app.screen)]
    /\ wizard' = nextState

\* SetupWizard (part_000): its checks end and it calls onComplete; when no
\* wallet is stored it first asks, and creates one on 'y'.
SetupFinishes(create) ==
    /\ app.screen = "setup"
    /\ LET loaded == loadWallets(walletFile)
       IN  /\ loaded.kind = "return"
           /\ loaded.value.type = "array"
           /\ create => Len(loaded.value.items) = 0
    /\ IF create
       THEN \E key \in FreshKeys :
                StoreOp("create", "Capture Wallet", key, Undefined,
                        createWallet(walletFile, "Capture Wallet", key))
       ELSE UNCHANGED storeVars
    /\ app' = [app EXCEPT !.screen = "wallet"]
    /\ wizard' = WalletSelectorState
    /\ setupMarker' = TRUE
    /\ UNCHANGED <<captureVars, pageVars, ethVars, sends, logVars, popups, runtimeFrame>>

\* WalletSelector renders: loadWallets() and a label for every element
\* (part_001:27-34).
SelectorRenders(file) ==
    LET loaded == loadWallets(file)
    IN  /\ loaded.kind = "return"
        /\ loaded.value.type = "array"
        /\ \A n \in 1..Len(loaded.value.items) : loaded.value.items[n].type = "wallet"

\* The render of WalletSelector throws: nothing catches it.
SelectorCrashes ==
    /\ app.screen = "wallet"
    /\ ~SelectorRenders(walletFile)
    /\ app' = [app EXCEPT !.screen = "crashed"]
    /\ wizard' = Crashed
    /\ UNCHANGED <<storeVars, wizardFrame, runtimeFrame>>

\* handleSelect(item) of part_001:36-53.
WalletSelect(item) ==
    /\ app.screen = "wallet"
    /\ wizard.subScreen = "list"
    /\ SelectorRenders(walletFile)
    /\ CASE item = <<"__create__">> ->
              \E key \in FreshKeys :
                  LET out == createWallet(walletFile, "Capture Wallet", key)
                  IN  /\ StoreOp("create", "Capture Wallet", key, Undefined, out)
                      /\ wizard' = [wizard EXCEPT !.subScreen = "created",
                                        !.createdWallet = out.value.items[1],
                                        !.isEphemeral = FALSE]
                      /\ UNCHANGED app
         [] item = <<"__import__">> ->
              /\ wizard' = [wizard EXCEPT !.subScreen = "import"]
              /\ UNCHANGED <<app, storeVars>>
         [] item = <<"__ephemeral__">> ->
              \E key \in FreshKeys :
                  LET out == createEphemeralWallet(walletFile, key)
                  IN  /\ StoreOp("createEphemeral", "Ephemeral", key, Undefined, out)
                      /\ wizard' = [wizard EXCEPT !.subScreen = "created",
                                        !.createdWallet = out.value.items[1],
                                        !.isEphemeral = TRUE]
                      /\ UNCHANGED app
         [] OTHER ->
              /\ \E n \in 1..Len(WalletsOf(walletFile)) :
                    /\ WalletsOf(walletFile)[n].address = item
                    /\ \A m \in 1..(n - 1) : WalletsOf(walletFile)[m].address # item
                    /\ Completes("wallet", WalletsOf(walletFile)[n], "chain", ChainPickerState)
              /\ UNCHANGED storeVars
    /\ UNCHANGED <<wizardFrame, runtimeFrame>>

\* handleImportSubmit(value) of part_001:55-64.
WalletImportSubmit(value) ==
    /\ app.screen = "wallet"
    /\ wizard.subScreen = "import"
    /\ SelectorRenders(walletFile)
    /\ LET out == importWallet(walletFile, "Imported Wallet", value)
       IN  /\ StoreOp("import", "Imported Wallet", value, Undefined, out)
           /\ wizard' = IF out.kind = "return"
                        THEN [wizard EXCEPT !.subScreen = "created",
                                            !.createdWallet = out.value.items[1],
                                            !.isEphemeral = FALSE]
                        ELSE [wizard EXCEPT !.error = <<"string", ErrMessage(out.error)>>]
    /\ UNCHANGED app
    /\ UNCHANGED <<wizardFrame, runtimeFrame>>

\* ContinueOnEnter (part_001:84, 122-127): Enter on the 'created' sub-screen.
WalletContinue ==
    /\ app.screen = "wallet"
    /\ wizard.subScreen = "created"
    /\ wizard.createdWallet.type # "null"
    /\ SelectorRenders(walletFile)
    /\ Completes("wallet", wizard.createdWallet, "chain", ChainPickerState)
    /\ UNCHANGED <<storeVars, wizardFrame, runtimeFrame>>

\* handleSelect(item) of part_004:26-33: item.value is '__custom__' or String(c.id).
ChainSelect(item) ==
    /\ app.screen = "chain"
    /\ wizard.subScreen = "list"
    /\ IF item = <<"__custom__">>
       THEN /\ wizard' = [wizard EXCEPT !.subScreen = "customId"]
            /\ UNCHANGED app
       ELSE \E n \in 1..Len(Registry) :
                /\ Digits(Registry[n].id) = item
                /\ Completes("chain", Registry[n], "url", UrlInputState)
    /\ UNCHANGED <<storeVars, wizardFrame, runtimeFrame>>

\* handleCustomIdSubmit(value) of part_004:35-43; value is what customId holds.
ChainCustomIdSubmit(value) ==
    /\ app.screen = "chain"
    /\ wizard.subScreen = "customId"
    /\ wizard' = IF NotPositive(ParseInt(value))
                 THEN [wizard EXCEPT !.customId = value,
                                     !.error = "Chain ID must be a positive number"]
                 ELSE [wizard EXCEPT !.customId = value, !.error = "",
                                     !.subScreen = "customRpc"]
    /\ UNCHANGED app
    /\ UNCHANGED <<storeVars, wizardFrame, runtimeFrame>>

\* handleCustomRpcSubmit(value) of part_004:45-57.
ChainCustomRpcSubmit(value) ==
    /\ app.screen = "chain"
    /\ wizard.subScreen = "customRpc"
    /\ IF ~IsHttpUrl(value)
       THEN /\ wizard' = [wizard EXCEPT !.error = "RPC URL must start with http:// or https://"]
            /\ UNCHANGED app
       ELSE Completes("chain", CustomChain(ParseInt(wizard.customId).n, value), "url", UrlInputState)
    /\ UNCHANGED <<storeVars, wizardFrame, runtimeFrame>>

\* handleSubmit(value) of url-input.tsx:14-20.
UrlSubmit(value) ==
    /\ app.screen = "url"
    /\ IF ~IsHttpUrl(value)
       THEN /\ wizard' = [wizard EXCEPT !.error = "URL must start with http:// or https://"]
            /\ UNCHANGED app
       ELSE Completes("url", value, "figma", FigmaDestinationState)
    /\ UNCHANGED <<storeVars, wizardFrame, runtimeFrame>>

\* handleModeSelect of part_006:43-46, and the effect that fetches the options.
FigmaModeSelect(mode) ==
    /\ app.screen = "figma"
    /\ wizard.subScreen = "selectMode"
    /\ wizard' = [wizard EXCEPT !.mode = mode, !.subScreen = "loading"]
    /\ UNCHANGED app
    /\ UNCHANGED <<storeVars, wizardFrame, runtimeFrame>>

\* fetchFigmaOptions() settles (part_006:50-58).
FigmaOptionsArrive(ok) ==
    /\ app.screen = "figma"
    /\ wizard.subScreen = "loading"
    /\ wizard.error = ""
    /\ wizard' = IF ok THEN [wizard EXCEPT !.subScreen = "selectItem"]
                 ELSE [wizard EXCEPT !.error = "Could not fetch Figma options"]
    /\ UNCHANGED app
    /\ UNCHANGED <<storeVars, wizardFrame, runtimeFrame>>

\* handleItemSelect of part_006:61-68.
FigmaItemSelect(value) ==
    /\ app.screen = "figma"
    /\ wizard.subScreen = "selectItem"
    /\ IF wizard.mode = "existingFile"
       THEN Completes("figmaDest", [NoDestination EXCEPT !.mode = "existingFile", !.fileKey = value],
                      "captureId", CaptureIdScreenState)
       ELSE /\ wizard' = [wizard EXCEPT !.selectedPlanKey = value, !.subScreen = "fileName"]
            /\ UNCHANGED app
    /\ UNCHANGED <<storeVars, wizardFrame, runtimeFrame>>

\* handleFileNameSubmit of part_006:70-73; value.trim() is given.
FigmaFileNameSubmit(trimmed) ==
    /\ app.screen = "figma"
    /\ wizard.subScreen = "fileName"
    /\ IF trimmed = ""
       THEN UNCHANGED <<app, wizard>>
       ELSE Completes("figmaDest",
                      [NoDestination EXCEPT !.mode = "newFile", !.planKey = wizard.selectedPlanKey,
                                            !.fileName = trimmed],
                      "captureId", CaptureIdScreenState)
    /\ UNCHANGED <<storeVars, wizardFrame, runtimeFrame>>

\* generateCaptureId(destination) settles (capture-id.tsx:22-38).
CaptureIdArrives(ok, id) ==
    /\ app.screen = "captureId"
    /\ wizard.status = "loading"
    /\ wizard' = IF ok THEN [wizard EXCEPT !.status = "success", !.captureId = id, !.timer = "armed"]
                 ELSE [wizard EXCEPT !.status = "error"]
    /\ UNCHANGED app
    /\ UNCHANGED <<storeVars, wizardFrame, runtimeFrame>>

\* The browser runtime before BrowserSession is mounted.
NotMounted == [Mounted EXCEPT !.mounted = FALSE, !.listening = FALSE]
NotCalled == [Launching EXCEPT !.status = "idle"]
NoConfig == [address |-> Undefined, chain |-> NoChain]

\* The 1500 ms timer of capture-id.tsx:28-30 fires: onComplete(id), App
\* renders BrowserSession with its config and the effect calls launchBrowser.
CaptureIdTimerFires ==
    /\ app.screen = "captureId"
    /\ wizard.timer = "armed"
    /\ app' = [app EXCEPT !.captureId = wizard.captureId, !.screen = "browser",
                          !.completed = Append(@, "captureId"),
                          !.launchedWith = <<ConfigOf([app EXCEPT !.captureId = wizard.captureId])>>]
    /\ wizard' = BrowserSessionState
    /\ config' = [address |-> app.wallet.address, chain |-> app.chain]
    /\ provider' = ProviderOf(config')
    /\ screen' = Mounted
    /\ launch' = Launching
    /\ listeners' = ListenerCount(EffectAttaches, "tx:request")
    /\ UNCHANGED <<provEmitted, requestIdCounter, calls, bus, posts>>
    /\ UNCHANGED <<browser, completions>>
    /\ UNCHANGED <<storeVars, wizardFrame>>

\* onComplete of browser-session.tsx:218-221, rendered after the session
\* called it: App shows the result.
AppShowsResult ==
    /\ app.screen = "browser"
    /\ completions # <<>>
    /\ app' = [app EXCEPT !.screen = "result", !.completed = Append(@, "browser")]
    /\ wizard' = ResultScreenState
    /\ UNCHANGED <<storeVars, wizardFrame, runtimeFrame>>

----------------------------------------------------------------------------
(* The session log *)

\* The last instant of the clock, and the lines all files together may grow to.
MaxClock == 1
MaxLogLines == 6

\* A line of a log file: with the '[<iso-timestamp>] ' prefix or without it.
Stamped(ts, text) == [stamped |-> TRUE, ts |-> ts, text |-> text]
Bare(text) == [stamped |-> FALSE, ts |-> 0, text |-> text]

\* A message is the sequence of the lines its text has.
OneLine(kind, arg) == <<<<kind, arg>>>>
STACK == <<<<"Error: ", "boom">>, <<"    at ", "fetchCaptureScript (logger.ts:505:11)">>>>
Messages == {OneLine("Toolbar injected", "")}
LoggedErrors ==
    {[isError |-> TRUE, message |-> "boom", stack |-> STACK],
     [isError |-> FALSE, message |-> "timeout", stack |-> <<>>]}

RECURSIVE BareLines(_)
BareLines(texts) ==
    IF texts = <<>> THEN <<>> ELSE <<Bare(Head(texts))>> \o BareLines(Tail(texts))

\* appendFileSync(file, text + '\n'): the file is created when it is not there.
AppendFile(files, name, lines) == [files EXCEPT ![name] = @ \o lines]

\* startSession() at instant now: the file is named after the instant.
startSession(lg, files, now) ==
    [logger |-> [lg EXCEPT !.active = TRUE, !.sessionFile = now, !.sessionStart = now],
     files |-> AppendFile(files, now, <<Bare(<<"Session started: ", now>>)>>)]

\* log(message) at instant now.
log(lg, files, now, message) ==
    LET s == IF ~lg.active THEN startSession(lg, files, now)
             ELSE [logger |-> lg, files |-> files]
    IN  [logger |-> s.logger,
         files |-> AppendFile(s.files, s.logger.sessionFile,
                        <<Stamped(now, Head(message))>> \o BareLines(Tail(message)))]

\* logError(label, err) at instant now.
logError(lg, files, now, label, err) ==
    LET first == log(lg, files, now, OneLine("ERROR " \o label \o ": ", err.message))
    IN  IF err.isError /\ err.stack # <<>>
        THEN log(first.logger, first.files, now, err.stack)
        ELSE first

\* endSession(result) at instant now; figmaUrl is "" when the result has none.
endSession(lg, files, now, figmaUrl) ==
    IF ~lg.active THEN [logger |-> lg, files |-> files]
    ELSE LET ended == log(lg, files, now, OneLine("Session ended: ", now))
             timed == log(ended.logger, ended.files, now,
                          OneLine("Duration: ", now - lg.sessionStart))
             last == IF figmaUrl # ""
                     THEN log(timed.logger, timed.files, now, OneLine("Figma URL: ", figmaUrl))
                     ELSE timed
         IN  [logger |-> [last.logger EXCEPT !.active = FALSE,
                                             !.ended = @ \cup {lg.sessionFile}],
              files |-> last.files]

\* getLogFile(): the path of the session file, or null.
getLogFile(lg) == IF lg.active THEN <<"path", lg.sessionFile>> ELSE Null

RECURSIVE LinesIn(_, _)
\* The lines in the files named 0..last.
LinesIn(files, last) ==
    IF last < 0 THEN 0 ELSE Len(files[last]) + LinesIn(files, last - 1)

logFrame == <<rpcVars, captureVars, pageVars, sessVars, ethVars, sends, storeVars, wizardVars, popups>>

\* One call of the logger, at the instant the clock shows.
LogOp(out) ==
    /\ LinesIn(out.files, MaxClock) <= MaxLogLines
    /\ logger' = out.logger
    /\ logFiles' = out.files
    /\ UNCHANGED logFrame

Tick ==
    /\ logger.now < MaxClock
    /\ logger' = [logger EXCEPT !.now = @ + 1]
    /\ UNCHANGED logFiles
    /\ UNCHANGED logFrame

StartSession == LogOp(startSession(logger, logFiles, logger.now))
Log(message) == LogOp(log(logger, logFiles, logger.now, message))
LogError(label, err) == LogOp(logError(logger, logFiles, logger.now, label, err))
EndSession(figmaUrl) == LogOp(endSession(logger, logFiles, logger.now, figmaUrl))

----------------------------------------------------------------------------
(* The popup observer *)

MaxPopups == 2
MaxNavigations == 2

ABOUT_BLANK == Text(<<"about:blank">>)

\* URLs a new page can open with or navigate to: Figma's, an application's,
\* and two that only contain the text 'figma.com'.
PageUrls ==
    {ABOUT_BLANK,
     Text(<<"https://", "www.", "figma.com", "/design/abc">>),
     Text(<<"https://", "figma.com", "/file/abc">>),
     Text(<<"https://", "app.example", "/">>),
     Text(<<"https://", "app.example", "/?to=", "figma.com">>),
     Text(<<"https://", "not", "figma.com", "/">>)}

FigmaUrlEvent(url, at) == [event |-> "capture:figmaUrl", inv |-> 0, url |-> url, at |-> at]

\* What the observer does with the URL of a new page (logger.ts:563-567):
\* what it logs, what it emits, and whether it calls popup.close(), which
\* neither handler does.
OnPage(url, at) ==
    [logged |-> <<OneLine("Popup opened: ", url)>>,
     emitted |-> IF Includes(url, "figma.com") THEN <<FigmaUrlEvent(url, at)>> ELSE <<>>,
     closes |-> FALSE]

\* What the 'framenavigated' listener does (logger.ts:569-577).
OnFrameNavigated(main, navUrl, at) ==
    IF main /\ Includes(navUrl, "figma.com") /\ navUrl # ABOUT_BLANK
    THEN [logged |-> <<OneLine("Popup navigated to: ", navUrl)>>,
          emitted |-> <<FigmaUrlEvent(navUrl, at)>>,
          closes |-> FALSE]
    ELSE [logged |-> <<>>, emitted |-> <<>>, closes |-> FALSE]

RECURSIVE LogAll(_, _, _)
\* log() of each message in turn.
LogAll(lg, files, messages) ==
    IF messages = <<>> THEN [logger |-> lg, files |-> files]
    ELSE LET first == log(lg, files, lg.now, Head(messages))
         IN  LogAll(first.logger, first.files, Tail(messages))

popupFrame == <<rpcVars, submits, pageVars, sessVars, ethVars, sends, storeVars, wizardVars>>

\* An event of the browser the observer listens to, and what it does with it.
Observe(page, kind, main, url, did) ==
    /\ popups' = Append(popups, [page |-> page, kind |-> kind, main |-> main, url |-> url,
                                 closed |-> did.closes])
    /\ capEvents' = capEvents \o did.emitted
    /\ logger' = LogAll(logger, logFiles, did.logged).logger
    /\ logFiles' = LogAll(logger, logFiles, did.logged).files
    /\ UNCHANGED popupFrame

PagesOpened == {n \in 1..Len(popups) : popups[n].kind = "page"}
NavigationsSeen == {n \in 1..Len(popups) : popups[n].kind = "framenavigated"}

\* The context creates a page: its 'page' event reaches the observer.
PageOpens(url) ==
    /\ context.popupObserver
    /\ browser.state = "open"
    /\ Cardinality(PagesOpened) < MaxPopups
    /\ Observe(Cardinality(PagesOpened) + 1, "page", TRUE, url, OnPage(url, Len(popups) + 1))

\* A frame of a page the observer has seen navigates.
FrameNavigates(page, main, url) ==
    /\ browser.state = "open"
    /\ page \in 1..Cardinality(PagesOpened)
    /\ Cardinality(NavigationsSeen) < MaxNavigations
    /\ Observe(page, "framenavigated", main, url, OnFrameNavigated(main, url, Len(popups) + 1))

----------------------------------------------------------------------------
(* The setup wizard (part_000:59-234)                                      *)

NodeMajors == {16, 18, 20}

\* updateCheck(index, update), index counted from 0 as in the source.
updateCheck(wz, index, update) ==
    [wz EXCEPT !.checks[index + 1] =
        [f \in DOMAIN @ |-> IF f \in DOMAIN update THEN update[f] ELSE @[f]]]

Checking == [status |-> "checking"]
Ok(detail) == [status |-> "ok", detail |-> detail]
Warn(detail) == [status |-> "warn", detail |-> detail]

\* fatal(step, detail, message)
fatal(wz, step, detail, message) ==
    [updateCheck(wz, step, [status |-> "fail", detail |-> detail])
        EXCEPT !.fatalMessage = message, !.phase = "fatal"]

\* The wizard and the marker file, as one value the steps pass on.
Setup(wz, marker) == [wizard |-> wz, marker |-> marker]

\* finish(): markSetupComplete(), setPhase('done'), setTimeout(onComplete, 800)
finish(st) ==
    Setup([st.wizard EXCEPT !.phase = "done", !.timer = "armed"], TRUE)

\* wallets.length of what loadWallets returned
LengthOf(value) == IF value.type = "array" THEN Len(value.items) ELSE 0

\* runFrom, step 4 (part_000:154-166): it has no await and ends runFrom.
WalletStep(st, file) ==
    LET loaded == loadWallets(file)
        wz == updateCheck(st.wizard, 4, Checking)
    IN  IF loaded.kind = "throw" \/ loaded.value.type = "null"
        THEN Setup([wz EXCEPT !.pc = "rejected"], st.marker)
        ELSE IF LengthOf(loaded.value) > 0
        THEN finish(Setup([updateCheck(wz, 4, Ok("n wallet(s) found")) EXCEPT !.pc = "returned"],
                          st.marker))
        ELSE Setup([updateCheck(wz, 4, Warn("No wallets"))
                        EXCEPT !.phase = "prompt-wallet", !.pc = "returned"], st.marker)

\* runFrom up to the await of step 3, of step 2 and of step 1.
FigmaStep(wz) == [updateCheck(wz, 3, Checking) EXCEPT !.pc = "figma"]
ClaudeStep(wz) == [updateCheck(wz, 2, Checking) EXCEPT !.pc = "claude"]
ChromiumStep(wz) == [updateCheck(wz, 1, Checking) EXCEPT !.pc = "chromium"]

\* runFrom, step 0 (part_000:86-96): major >= 18 or fatal.
NodeStep(wz, major) ==
    IF major >= 18
    THEN ChromiumStep(updateCheck(updateCheck(wz, 0, Checking), 0, Ok("version")))
    ELSE [fatal(updateCheck(wz, 0, Checking), 0, "requires >= 18", "Node.js is too old")
            EXCEPT !.pc = "returned"]

setupFrame == <<captureVars, pageVars, ethVars, sends, logVars, popups, runtimeFrame>>

SetupMounted == app.screen = "setup" /\ wizard.screen = "setup"

\* useEffect(() => { runFrom(0) }, []) (part_000:169-171)
SetupEffect(major) ==
    /\ SetupMounted
    /\ wizard.pc = "effect"
    /\ wizard' = NodeStep(wizard, major)
    /\ UNCHANGED <<app, setupMarker, storeVars, setupFrame>>

\* Step 1 goes on after import('playwright') and existsSync(execPath).
ChromiumChecked(found) ==
    /\ SetupMounted
    /\ wizard.pc = "chromium"
    /\ wizard' = IF found
                 THEN ClaudeStep(updateCheck(wizard, 1, Ok("Chromium found")))
                 ELSE [updateCheck(wizard, 1, Warn("Chromium not installed"))
                          EXCEPT !.phase = "prompt-chromium", !.pc = "returned"]
    /\ UNCHANGED <<app, setupMarker, storeVars, setupFrame>>

\* Step 2 goes on after `claude --version` has closed or failed to start.
ClaudeChecked(ok) ==
    /\ SetupMounted
    /\ wizard.pc = "claude"
    /\ wizard' = IF ok
                 THEN FigmaStep(updateCheck(wizard, 2, Ok("installed")))
                 ELSE [fatal(wizard, 2, "Not found", "Claude Code is not installed.")
                          EXCEPT !.pc = "returned"]
    /\ UNCHANGED <<app, setupMarker, storeVars, setupFrame>>

\* Step 3 goes on after checkClaudeAvailable(), which catches what it runs
\* into (claude.ts:168-188), and step 4 follows without an await.
FigmaChecked(hasFigmaMcp) ==
    /\ SetupMounted
    /\ wizard.pc = "figma"
    /\ LET st == IF hasFigmaMcp
                 THEN WalletStep(Setup(updateCheck(wizard, 3, Ok("Connected")), setupMarker),
                                 walletFile)
                 ELSE Setup([fatal(wizard, 3, "Figma MCP not configured",
                                   "Figma MCP is not configured in Claude Code.")
                                EXCEPT !.pc = "returned"], setupMarker)
       IN  /\ wizard' = st.wizard
           /\ setupMarker' = st.marker
    /\ UNCHANGED <<app, storeVars, setupFrame>>

InstallClosedAnyCode(wz, code) ==
    ClaudeStep([updateCheck(wz, 1, Ok("Chromium installed")) EXCEPT !.phase = "running"])

\* The exit code of the install process the effect of part_000:174-197 started.
InstallClosed(wz, code) ==
    IF code = 0
    THEN ClaudeStep([updateCheck(wz, 1, Ok("Chromium installed")) EXCEPT !.phase = "running"])
    ELSE fatal(wz, 1, "Installation failed", "Failed to install Playwright Chromium.")

\* proc.on('close', ...): a process that failed to start closes too, with a
\* code that is not 0.
InstallCloses(code) ==
    /\ SetupMounted
    /\ wizard.install \in {"running", "errored"}
    /\ wizard.install = "errored" => code # 0
    /\ wizard' = [InstallClosed(wizard, code) EXCEPT !.install = "closed"]
    /\ UNCHANGED <<app, setupMarker, storeVars, setupFrame>>

\* proc.on('error', ...)
InstallErrors ==
    /\ SetupMounted
    /\ wizard.install = "running"
    /\ wizard' = [fatal(wizard, 1, "Installation failed", "Failed to install Playwright Chromium: error")
                    EXCEPT !.install = "errored"]
    /\ UNCHANGED <<app, setupMarker, storeVars, setupFrame>>

SetupKeys == {"y", "n", "s", "return", "x"}

\* useInput (part_000:200-226): what a key does in each phase.
SetupKey(input) ==
    /\ SetupMounted
    /\ ~wizard.exited
    /\ CASE wizard.phase = "prompt-chromium" /\ input = "y" ->
              \* the effect of part_000:174 starts the install on the next render
              /\ wizard' = [updateCheck(wizard, 1, [status |-> "checking", detail |-> "Installing..."])
                              EXCEPT !.phase = "installing-chromium", !.install = "running"]
              /\ UNCHANGED <<setupMarker, storeVars>>
         [] wizard.phase = "prompt-chromium" /\ input = "n" ->
              /\ wizard' = fatal(wizard, 1, "Skipped by user",
                                 "Playwright Chromium is required for browser capture.")
              /\ UNCHANGED <<setupMarker, storeVars>>
         [] wizard.phase = "prompt-wallet" /\ input = "y" ->
              /\ \E key \in FreshKeys :
                    LET out == createWallet(walletFile, "Capture Wallet", key)
                    IN  /\ StoreOp("create", "Capture Wallet", key, Undefined, out)
                        /\ wizard' = IF out.kind = "throw" THEN Crashed
                                     ELSE [updateCheck(wizard, 4, Ok("address"))
                                              EXCEPT !.phase = "wallet-created"]
              /\ UNCHANGED setupMarker
         [] wizard.phase = "prompt-wallet" /\ input = "s" ->
              /\ wizard' = finish(Setup(updateCheck(wizard, 4, Warn("Skipped")), setupMarker)).wizard
              /\ setupMarker' = finish(Setup(updateCheck(wizard, 4, Warn("Skipped")), setupMarker)).marker
              /\ UNCHANGED storeVars
         [] wizard.phase = "wallet-created" /\ input = "return" ->
              /\ wizard' = finish(Setup(wizard, setupMarker)).wizard
              /\ setupMarker' = finish(Setup(wizard, setupMarker)).marker
              /\ UNCHANGED storeVars
         [] wizard.phase = "fatal" ->
              /\ wizard' = [wizard EXCEPT !.exited = TRUE]
              /\ UNCHANGED <<setupMarker, storeVars>>
         [] OTHER -> UNCHANGED <<wizard, setupMarker, storeVars>>
    /\ UNCHANGED <<app, setupFrame>>

\* The timer of finish fires: onComplete(), and App renders the wallet screen
\* (browser-session.tsx:153-154).
SetupCompletes ==
    /\ SetupMounted
    /\ wizard.timer = "armed"
    /\ app' = [app EXCEPT !.screen = "wallet"]
    /\ wizard' = WalletSelectorState
    /\ UNCHANGED <<setupMarker, storeVars, setupFrame>>

----------------------------------------------------------------------------
(* Initial states *)

\* A fresh document: the init script has just created an empty `listeners`.
EthInit ==
    /\ ethListeners = [e \in ProviderEvents |-> <<>>]
    /\ emitStack = <<>>
    /\ ethCalls = <<>>
    /\ invoked = <<>>
    /\ sends = <<>>

StoreInit(files) ==
    /\ walletFile \in files
    /\ storeOps = <<>>

\* The workflow has handed over to the session: every screen before it has
\* completed and App renders BrowserSession with the wallet and chain of config.
WorkflowOrder == <<"wallet", "chain", "url", "figma", "captureId">>
SessionWallet == WalletEntry("Ephemeral", ADDRESS, KeyText("0x", 64, TRUE, "g1"))
AppLaunched(cfg) ==
    LET a == [AppState("browser") EXCEPT !.wallet = [SessionWallet EXCEPT !.address = cfg.address],
                                         !.chain = cfg.chain,
                                         !.url = Text(<<"https://", "app.example">>),
                                         !.figmaDest = [NoDestination EXCEPT !.mode = "existingFile",
                                                                             !.fileKey = "file1"],
                                         !.captureId = CAPTURE_ID,
                                         !.completed = WorkflowOrder]
    IN  [a EXCEPT !.launchedWith = <<ConfigOf(a)>>]

WizardInit ==
    /\ wizard = BrowserSessionState
    /\ app = AppLaunched(config)
    /\ setupMarker = TRUE

\* No file is written yet and no session is active.
NoLogs == [name \in 0..MaxClock |-> <<>>]
LoggerLoaded == [active |-> FALSE, sessionFile |-> 0, sessionStart |-> 0, now |-> 0, ended |-> {}]

\* cli.tsx has called startSession() before it rendered App.
LogInit ==
    /\ logger = startSession(LoggerLoaded, NoLogs, 0).logger
    /\ logFiles = startSession(LoggerLoaded, NoLogs, 0).files

PopupInit == popups = <<>>

\* The tools around a running session: nothing has been stored or logged yet.
ToolInit ==
    /\ EthInit
    /\ StoreInit({FileAbsent})
    /\ WizardInit
    /\ LogInit
    /\ PopupInit

\* The screen has just been mounted and its effect has called launchBrowser.
RuntimeInit ==
    /\ submits = <<>>
    /\ capEvents = <<>>
    /\ context = EmptyContext
    /\ window = NoWindow
    /\ announced = <<>>
    /\ fetches = <<>>
    /\ injects = <<>>
    /\ launch = Launching
    /\ browser = [state |-> "none", disconnects |-> 0]
    /\ screen = Mounted
    /\ completions = <<>>

SessionInit == RuntimeInit /\ ToolInit

\* The state in which the dispatcher and the bridge serve a page: launchBrowser
\* has returned, the first document is loaded and the session is open.
PageInit ==
    /\ submits = <<>>
    /\ capEvents = <<>>
    /\ context = WiredContext
    /\ window = NewDocument(WiredContext, 1)
    /\ announced = <<>>
    /\ fetches = <<>>
    /\ injects = <<>>
    /\ launch = Launched
    /\ browser = [state |-> "open", disconnects |-> 0]
    /\ screen = SessionOpen(Mounted)
    /\ completions = <<>>

BridgeInit == PageInit /\ ToolInit

InitWith(cfgs) == RpcInit(cfgs) /\ BridgeInit

----------------------------------------------------------------------------
(* Specifications: the same actions under the inputs of one kind of page *)

AllSignerOutcomes ==
    UNION {SignerOutcomes(m, p) : m \in SigningMethods, p \in {EmptyArray, <<"array", TX_JSON>>}}

ResolveActs == {Act("resolve", v) : v \in ResolveValues}
RejectActs == {Act("reject", e) : e \in RejectErrors}
ThrowActs == {Act("throw", Err("Error", "render failed"))}

PolygonOnly == {[address |-> ADDRESS, chain |-> Polygon]}

\* A page that signs: every signing method with every params, one local
\* method, and an approver that resolves or rejects once per request.
Next ==
    \/ AttachListener
    \/ DetachListener
    \/ \E m \in SigningMethods \cup {"eth_chainId"} : \E p \in ParamsOf(m) : Dispatch(m, p, NoAct)
    \/ \E i \in 1..Len(calls) : \E o \in AllSignerOutcomes : SignerSettles(i, o)
    \/ \E r \in 1..Len(bus) :
            /\ calls[bus[r].call].first = NoAct
            /\ \E a \in {Act("resolve", Str("0xSIG")), Act("reject", Err("Error", "User denied"))} :
                    ApproverActs(r, a)

Init == InitWith(PolygonOnly)

InitLocal == InitWith(Configs)

Spec == Init /\ [][Next]_vars

WellFormedParams(m) == {p \in ParamsOf(m) : WellFormed(m, p)}

\* A page that signs with an approver that may do anything with a request:
\* throw out of the emit, resolve or reject, and do so again later.
NextApproval ==
    \/ AttachListener
    \/ DetachListener
    \/ \E m \in SigningMethods : \E p \in WellFormedParams(m) :
            \E t \in {NoAct} \cup ThrowActs : Dispatch(m, p, t)
    \/ \E i \in 1..Len(calls) : \E o \in AllSignerOutcomes : SignerSettles(i, o)
    \/ \E r \in 1..Len(bus) : \E a \in ResolveActs \cup RejectActs : ApproverActs(r, a)

SpecApproval == Init /\ [][NextApproval]_vars

\* A page that signs with an approver that may run request.sign() itself and
\* then resolves or rejects.
NextReject ==
    \/ AttachListener
    \/ DetachListener
    \/ \E m \in SigningMethods : \E p \in WellFormedParams(m) : Dispatch(m, p, NoAct)
    \/ \E i \in 1..Len(calls) : \E o \in AllSignerOutcomes : SignerSettles(i, o)
    \/ \E r \in 1..Len(bus) : ApproverSigns(r)
    \/ \E r \in 1..Len(bus) :
            /\ calls[bus[r].call].first = NoAct
            /\ \E a \in {Act("resolve", Str("0xSIG"))} \cup RejectActs : ApproverActs(r, a)

SpecReject == Init /\ [][NextReject]_vars

\* A page that reads the chain: methods the switch does not enumerate, against
\* an upstream that answers anything.
ForwardInputs ==
    {<<"eth_blockNumber", Undefined>>, <<"eth_blockNumber", EmptyArray>>,
     <<"eth_getBalance", <<"array", ADDRESS, "latest">> >>}

NextForward ==
    \/ AttachListener
    \/ DetachListener
    \/ \E in \in ForwardInputs : Dispatch(in[1], in[2], NoAct)
    \/ \E i \in 1..Len(calls) : \E resp \in Responses : UpstreamResponds(i, resp)

SpecForward == InitLocal /\ [][NextForward]_vars

\* A page that probes the wallet: every locally answered method with every
\* params, next to one signing method and one forwarded method that can fail.
NextLocal ==
    \/ AttachListener
    \/ DetachListener
    \/ \E m \in LocalMethods : \E p \in ParamsOf(m) : Dispatch(m, p, NoAct)
    \/ Dispatch("personal_sign", <<"array", HELLO, ADDRESS>>, NoAct)
    \/ Dispatch("eth_blockNumber", EmptyArray, NoAct)
    \/ \E i \in 1..Len(calls) : SignerSettles(i, [ok |-> TRUE, value |-> Str("0xsig_personal")])
    \/ \E i \in 1..Len(calls) :
            \E resp \in {x \in Responses : x.kind \in {"netfail", "notjson"}} :
                UpstreamResponds(i, resp)
    \/ \E r \in 1..Len(bus) :
            /\ calls[bus[r].call].first = NoAct
            /\ ApproverActs(r, Act("reject", Err("Error", "User denied")))

SpecLocal == InitLocal /\ [][NextLocal]_vars


\* The capture toolbar submits pages to an upstream that answers anything,
\* under listeners that may throw.
NextCapture ==
    \/ SubmitCapture(SUBMIT_URL, <<"string", SUBMIT_DATA>>)
    \/ \E i \in 1..Len(submits) : \E resp \in CaptureResponses :
            \E throwers \in SUBSET CaptureEvents : CaptureResponds(i, resp, throwers)

SpecCapture == Init /\ [][NextCapture]_vars


\* A page under capture: the toolbar is injected again and again, with every
\* outcome of retrieving and evaluating the script, while the page navigates
\* and its scripts fetch.
NextInject ==
    \/ InjectCaptureToolbar(CAPTURE_ID)
    \/ \E i \in 1..Len(injects) : \E got \in ScriptOutcomes : ScriptRetrieved(i, got)
    \/ \E i \in 1..Len(injects) : \E threw \in BOOLEAN : EvaluateScript(i, threw)
    \/ \E i \in 1..Len(injects) : PatchPage(i)
    \/ Navigate
    \/ PageFetch(SUBMIT_URL, <<"object", SUBMIT_DATA>>)
    \/ PageFetch(OTHER_URL, <<"undefined">>)

SpecInject == Init /\ [][NextInject]_vars

\* A page whose toolbar was injected once and whose scripts fetch anything,
\* against an upstream that answers or fails and listeners that may throw.
NextFetch ==
    \/ injects = <<>> /\ InjectCaptureToolbar(CAPTURE_ID)
    \/ \E i \in 1..Len(injects) : ScriptRetrieved(i, [kind |-> "response", status |-> 200, text |-> CAPTURE_JS])
    \/ \E i \in 1..Len(injects) : EvaluateScript(i, FALSE)
    \/ \E i \in 1..Len(injects) : PatchPage(i)
    \/ \E url \in FetchUrls : \E opts \in FetchOpts : PageFetch(url, opts)
    \/ \E i \in 1..Len(submits) :
            \E resp \in {[kind |-> "netfail", text |-> ""], [kind |-> "text", text |-> BODY_S6]} :
                \E throwers \in {{}, {"capture:submitted"}} : CaptureResponds(i, resp, throwers)

SpecFetch == Init /\ [][NextFetch]_vars

\* A page that discovers wallets.
NextAnnounce ==
    \/ RequestProvider
    \/ AnnounceTimerFires
    \/ Navigate

SpecAnnounce == Init /\ [][NextAnnounce]_vars

\* The BrowserSession screen from its mount: the launch with every failure,
\* the keys, the user closing the window, one injection, the unmount.
InitSession == RpcInit(PolygonOnly) /\ SessionInit

NextSession ==
    \/ LaunchStep
    \/ LaunchResolves
    \/ LaunchStepFails
    \/ \E input \in {"c", "q", "x"} : KeyPress(input)
    \/ \E i \in 1..Len(injects) :
            /\ browser.state = "open"
            /\ ScriptRetrieved(i, [kind |-> "response", status |-> 200, text |-> CAPTURE_JS])
    \/ \E i \in 1..Len(injects) : browser.state = "open" /\ EvaluateScript(i, FALSE)
    \/ \E i \in 1..Len(injects) : browser.state = "open" /\ PatchPage(i)
    \/ InjectToolbarResumes
    \/ UserClosesWindow
    \/ Disconnected
    \/ Unmount

SpecSession == InitSession /\ [][NextSession]_vars

\* A page that registers, removes and emits on window.ethereum, also from
\* inside its listeners.
NextListeners ==
    \/ \E e \in ProviderEvents : \E f \in Callbacks : ProviderOn(e, f)
    \/ \E e \in ProviderEvents : \E f \in Callbacks : ProviderOnce(e, f)
    \/ \E e \in ProviderEvents : \E f \in Callbacks : ProviderRemoveListener(e, f)
    \/ \E e \in ProviderEvents : ProviderEmit(e)
    \/ EmitCallsNext
    \/ ListenerReturns
    \/ ListenerThrows
    \/ EmitReturns

SpecListeners == Init /\ [][NextListeners]_vars

\* A page that uses the legacy entry points of the provider: one locally
\* answered method and one forwarded method, whose upstream answers or fails.
SendPayloads ==
    {Payload(7, m, ps) : m \in {"eth_chainId", "eth_blockNumber"}, ps \in {Undefined, EmptyArray}}

NextSend ==
    \/ \E pl \in SendPayloads : \E cb \in CallbackKinds : SendAsync(pl, cb)
    \/ \E pl \in SendPayloads : \E cb \in CallbackKinds : Send(pl, cb, cb)
    \/ \E m \in {"eth_chainId", "eth_blockNumber"} : \E ps \in {Undefined, EmptyArray} :
            Send(Str(m), ps, NoCallback)
    \/ \E i \in 1..Len(calls) :
            \E resp \in {r \in Responses : r.kind = "netfail" \/ (r.result # Absent /\ r.error = Absent)} :
                /\ UpstreamResponds(i, resp)
    \/ \E k \in 1..Len(sends) : SendSettles(k)

SpecSend == Init /\ [][NextSend]_vars

\* The store's operations on every file they can find.
InitStore ==
    /\ RpcInit(PolygonOnly)
    /\ PageInit
    /\ EthInit
    /\ StoreInit(WrittenFiles \cup ForeignFiles)
    /\ WizardInit
    /\ LogInit
    /\ PopupInit

NextStore ==
    \/ LoadWallets
    \/ CreateWallet("Capture Wallet")
    \/ \E k \in PastedKeys : ImportWallet("Imported Wallet", k)
    \/ CreateEphemeralWallet
    \/ \E a \in {OldWallet.address, OTHER_ADDRESS} : DeleteWallet(a)

SpecStore == InitStore /\ [][NextStore]_vars

\* The whole workflow, from the first screen to the result: every choice and
\* input of the wizard screens, then the session App mounts, in which the
\* page asks for the chain and asks to switch it.
InitWizard ==
    /\ RpcInit({NoConfig})
    /\ submits = <<>>
    /\ capEvents = <<>>
    /\ context = EmptyContext
    /\ window = NoWindow
    /\ announced = <<>>
    /\ fetches = <<>>
    /\ injects = <<>>
    /\ launch = NotCalled
    /\ browser = [state |-> "none", disconnects |-> 0]
    /\ screen = NotMounted
    /\ completions = <<>>
    /\ EthInit
    /\ StoreInit(WrittenFiles \cup {FileGarbage, FileJson("array", <<NullEntry>>)})
    /\ \E first \in {SetupWizardState, WalletSelectorState} :
            /\ wizard = first
            /\ app = AppState(first.screen)
            \* isFirstRun() of browser-session.tsx:144
            /\ setupMarker = (first.screen # "setup")
    /\ LogInit
    /\ PopupInit

\* What generateCaptureId can resolve with (claude.ts:140-163).
CaptureIds == {CAPTURE_ID, "0b7e"}

SelectItems == {<<"__create__">>, <<"__import__">>, <<"__ephemeral__">>, OldWallet.address}

NextWizard ==
    \/ \E create \in BOOLEAN : SetupFinishes(create)
    \/ SelectorCrashes
    \/ \E item \in SelectItems : WalletSelect(item)
    \/ \E k \in PastedKeys : WalletImportSubmit(k)
    \/ WalletContinue
    \/ \E item \in {<<"__custom__">>} \cup {Digits(Registry[n].id) : n \in 1..Len(Registry)} :
            ChainSelect(item)
    \/ \E v \in IdTexts : ChainCustomIdSubmit(v)
    \/ \E v \in UrlTexts : ChainCustomRpcSubmit(v)
    \/ \E v \in UrlTexts : UrlSubmit(v)
    \/ \E mode \in {"newFile", "existingFile"} : FigmaModeSelect(mode)
    \/ \E ok \in BOOLEAN : FigmaOptionsArrive(ok)
    \/ FigmaItemSelect("key1")
    \/ \E name \in {"", "Capture"} : FigmaFileNameSubmit(name)
    \/ \E ok \in BOOLEAN : \E id \in CaptureIds : CaptureIdArrives(ok, id)
    \/ CaptureIdTimerFires
    \/ LaunchStep
    \/ LaunchResolves
    \/ launch.status = "resolved" /\ browser.state = "open"
          /\ Dispatch("wallet_switchEthereumChain", <<"array", "0x1">>, NoAct)
    \/ KeyPress("q")
    \/ Unmount
    \/ AppShowsResult

SpecWizard == InitWizard /\ [][NextWizard]_vars

\* The program's calls of the logger, from the load of the module on.
InitLog ==
    /\ RpcInit(PolygonOnly)
    /\ PageInit
    /\ EthInit
    /\ StoreInit({FileAbsent})
    /\ WizardInit
    /\ logger = LoggerLoaded
    /\ logFiles = NoLogs
    /\ PopupInit

NextLog ==
    \/ Tick
    \/ StartSession
    \/ \E m \in Messages : Log(m)
    \/ \E e \in LoggedErrors : LogError("Fetch capture script", e)
    \/ \E url \in {"", "https://www.figma.com/design/abc"} : EndSession(url)

SpecLog == InitLog /\ [][NextLog]_vars

\* Pages that open in the session's context and navigate.
NextPopups ==
    \/ \E url \in PageUrls : PageOpens(url)
    \/ \E page \in 1..MaxPopups : \E main \in BOOLEAN : \E url \in PageUrls :
            FrameNavigates(page, main, url)

SpecPopups == Init /\ [][NextPopups]_vars

\* The session as the workflow starts it: BrowserSession is mounted with its
\* own emitter, launches the browser, and the page then asks for signatures
\* and transactions until the user ends the session.
InitShipped ==
    /\ config \in PolygonOnly
    /\ provider = ProviderOf(config)
    /\ provEmitted = <<>>
    /\ listeners = ListenerCount(EffectAttaches, "tx:request")
    /\ requestIdCounter = 0
    /\ calls = <<>>
    /\ bus = <<>>
    /\ posts = <<>>
    /\ SessionInit

NextShipped ==
    \/ LaunchStep
    \/ LaunchResolves
    \/ /\ launch.status = "resolved"
       /\ browser.state = "open"
       /\ \E m \in SigningMethods : \E p \in ParamsOf(m) : Dispatch(m, p, NoAct)
    \/ \E i \in 1..Len(calls) : \E o \in AllSignerOutcomes : SignerSettles(i, o)
    \/ KeyPress("q")
    \/ UserClosesWindow
    \/ Disconnected
    \/ Unmount

SpecShipped == InitShipped /\ [][NextShipped]_vars

\* An open session in which the toolbar submits captures and the user ends
\* the session with the quit key or by closing the browser window.
NextFinish ==
    \/ SubmitCapture(SUBMIT_URL, <<"string", SUBMIT_DATA>>)
    \/ \E i \in 1..Len(submits) : \E resp \in CaptureResponses : CaptureResponds(i, resp, {})
    \/ \E input \in {"q", "x"} : KeyPress(input)
    \/ UserClosesWindow
    \/ Disconnected
    \/ Unmount

SpecFinish == Init /\ [][NextFinish]_vars

\* A page that asks for signatures and transactions of every shape while an
\* approver is attached or not: what the approver is shown.
SignedMessages ==
    {HELLO, "0x4869", "0x680A69", "0x6807", "0xc3a9", "0x", "0xzz", "0x6869zz", "0x68697",
     "6869", "0X6869", "hi"}

SentTransactions ==
    {TX_JSON, "{}", "{to:'',value:'',data:'',gas:''}",
     "{to:0xdef,value:0x00,data:0xa9059cbb,gas:0x5208}", "{value:0x5208,data:0x}",
     "{value:hi,data:0xa9059cbb00000000000012}", "{value:0x,data:0xa9059cbb000000000000123}"}

NextMessages ==
    \/ AttachListener
    \/ DetachListener
    \/ \E m \in SignedMessages \cup {""} :
            Dispatch("personal_sign", <<"array", m, ADDRESS>>, NoAct)
    \/ Dispatch("personal_sign", EmptyArray, NoAct)
    \/ \E r \in 1..Len(bus) : \E a \in ResolveActs : ApproverActs(r, a)

SpecMessages == Init /\ [][NextMessages]_vars

NextDisplay ==
    \/ AttachListener
    \/ DetachListener
    \/ \E tx \in SentTransactions : Dispatch("eth_sendTransaction", <<"array", tx>>, NoAct)
    \/ \E r \in 1..Len(bus) : \E a \in ResolveActs : ApproverActs(r, a)

SpecDisplay == Init /\ [][NextDisplay]_vars

----------------------------------------------------------------------------
(* Properties of the signing cases, under Spec *)

\* The requests on the bus that belong to call i.
RequestsOf(i) == {r \in 1..Len(bus) : bus[r].call = i}

Settled(call) == call.status # "pending"

\* What the page sees of a dispatcher outcome: the value, or a string-message error.
PageSees(call, outcome) ==
    IF outcome.ok
    THEN call.status = "resolved" /\ call.value = outcome.value
    ELSE call.status = "rejected" /\ call.value = Err("Error", ErrMessage(outcome.value))

\* C1: a signing dispatch with well-formed params emits exactly one TxRequest
\* and does not call sign() when the 'tx:request' listener count is above zero
\* at dispatch; with a count of zero it emits nothing, calls sign() at once and
\* exactly once, and the page gets what sign() settled with.
C1_ApprovalOrImmediateSign ==
    \A i \in 1..Len(calls) :
        LET c == calls[i]
        IN  (c.method \in SigningMethods /\ WellFormed(c.method, c.params)) =>
                /\ c.approver =>
                        /\ Cardinality(RequestsOf(i)) = 1
                        /\ \A r \in RequestsOf(i) :
                                bus[r].method = c.method /\ bus[r].params = c.params
                        /\ c.signerRuns = 0
                        /\ c.signed = NoOutcome
                /\ ~c.approver =>
                        /\ RequestsOf(i) = {}
                        /\ c.signerRuns = 1
                        /\ Settled(c) =>
                                /\ c.signed \in SignerOutcomes(c.method, c.params)
                                /\ PageSees(c, c.signed)

\* Both cases have happened: one call went to the approver, and another was
\* signed at once and has returned the signer's result.
C1_Witness ==
    \E i, j \in 1..Len(calls) :
        /\ calls[i].approver /\ calls[i].method = "eth_sendTransaction"
        /\ WellFormed(calls[i].method, calls[i].params) /\ RequestsOf(i) # {}
        /\ ~calls[j].approver /\ calls[j].method \in SigningMethods
        /\ calls[j].signerRuns = 1 /\ calls[j].status = "resolved"
        /\ calls[j].value = calls[j].signed.value

\* C8: the ids of the emitted TxRequests strictly increase in emission order
\* (so no two requests share an id, whatever has become of the earlier ones),
\* and the counter is never behind an id already handed out.
C8_IdsStrictlyIncrease ==
    /\ \A r, q \in 1..Len(bus) : r < q => bus[r].id < bus[q].id
    /\ \A r \in 1..Len(bus) : bus[r].id <= requestIdCounter

\* Two requests of different methods were emitted, the first of them already
\* settled when the state is reached, the second still pending.
C8_Witness ==
    \E r, q \in 1..Len(bus) :
        /\ r < q
        /\ bus[r].method # bus[q].method
        /\ Settled(calls[bus[r].call])
        /\ ~Settled(calls[bus[q].call])

\* The approver resolves request r and the resolution takes effect in this step.
ResolvesNow(r) ==
    /\ ApproverActs(r, Act("resolve", Str("0xSIG")))
    /\ calls'[bus[r].call].status = "resolved"

\* A non-signing dispatch is answered in the step that makes it.
AnswersNow ==
    /\ Dispatch("eth_chainId", EmptyArray, NoAct)
    /\ calls'[Len(calls')].status = "resolved"

\* C9: requests are on the bus in the order of their dispatches, each from the
\* step that dispatched it on; and whatever else is pending, every pending
\* request can be resolved at once and a non-signing dispatch is answered at
\* once (while the model admits another call).
C9_DispatchOrderNoBlocking ==
    /\ \A r, q \in 1..Len(bus) : r < q => bus[r].call < bus[q].call
    /\ \A i \in 1..Len(calls) : calls[i].kind = "approval" => RequestsOf(i) # {}
    /\ \A r \in 1..Len(bus) : ~Settled(calls[bus[r].call]) => ENABLED ResolvesNow(r)
    /\ Len(calls) < MaxCalls => ENABLED AnswersNow

\* A later request has been resolved while an earlier one is still pending.
C9_Witness ==
    \E r, q \in 1..Len(bus) :
        /\ r < q
        /\ ~Settled(calls[bus[r].call])
        /\ calls[bus[q].call].status = "resolved"

----------------------------------------------------------------------------
(* Properties of the locally answered cases, under SpecLocal *)

\* The decimal texts of the registry's chain ids, written out.
NetVersionText == (137 :> <<"string", "1", "3", "7">>) @@ (10 :> <<"string", "1", "0">>)

\* The table of section 4.2 of the specification.
Tabulated(method, cfg) ==
    CASE method \in {"eth_accounts", "eth_requestAccounts"} -> <<"array", cfg.address>>
      [] method = "eth_chainId" -> <<"string", cfg.chain.hexId>>
      [] method = "net_version" -> NetVersionText[cfg.chain.id]
      [] method \in {"wallet_requestPermissions", "wallet_getPermissions"} ->
            <<"array", "{parentCapability:eth_accounts}">>
      [] method \in {"wallet_switchEthereumChain", "wallet_addEthereumChain"} -> <<"null">>

PostsOf(i) == {k \in 1..Len(posts) : posts[k].call = i}

\* This step dispatches a locally answered method.
LocalDispatched ==
    /\ Len(calls') = Len(calls) + 1
    /\ calls'[Len(calls')].method \in LocalMethods

C2_Step ==
    LocalDispatched =>
        /\ posts' = posts
        /\ bus' = bus
        /\ requestIdCounter' = requestIdCounter

C2_Inv ==
    \A i \in 1..Len(calls) :
        calls[i].method \in LocalMethods =>
            /\ calls[i].status = "resolved"
            /\ calls[i].value = Tabulated(calls[i].method, config)
            /\ PostsOf(i) = {}
            /\ RequestsOf(i) = {}
            /\ calls[i].signerRuns = 0

\* C2: each of the eight locally answered methods returns its tabulated
\* constant, whatever its params and whether or not a listener is attached,
\* and its dispatch posts nothing upstream, emits no TxRequest and leaves the
\* sequence counter where it was.
C2_LocalAnswers == [][C2_Step]_vars /\ []C2_Inv

\* net_version was answered with params and an approver attached, and
\* a permissions call without params and without an approver.
C2_Witness ==
    \E i, j \in 1..Len(calls) :
        /\ calls[i].method = "net_version" /\ calls[i].approver
        /\ calls[i].params = <<"array", "0x1">>
        /\ calls[i].value = NetVersionText[config.chain.id]
        /\ calls[j].method = "wallet_getPermissions" /\ ~calls[j].approver
        /\ calls[j].params = Undefined /\ calls[j].status = "resolved"

C10_Step == UNCHANGED <<config, provider, provEmitted>>

C10_Inv ==
    /\ provider = ProviderOf(config)
    /\ provEmitted = <<>>
    /\ \A i \in 1..Len(calls) :
            calls[i].method \in {"eth_accounts", "eth_chainId", "net_version"} =>
                calls[i].status = "resolved" /\ calls[i].value = Tabulated(calls[i].method, config)

\* C10: no dispatch changes the configured address and chain, the injected
\* provider's properties or emits an event on it, so after any dispatches
\* eth_accounts, eth_chainId and net_version answer the configuration the
\* session started with and no chainChanged has been emitted.
C10_NoSessionState == [][C10_Step]_vars /\ []C10_Inv

\* After a chain switch with a target chain was answered, eth_chainId still
\* answers the configured chain.
C10_Witness ==
    \E i, j \in 1..Len(calls) :
        /\ i < j
        /\ calls[i].method = "wallet_switchEthereumChain"
        /\ calls[i].params = <<"array", "0x1">>
        /\ calls[i].status = "resolved"
        /\ calls[j].method = "eth_chainId"
        /\ calls[j].value = Str(config.chain.hexId)

----------------------------------------------------------------------------
(* Properties of an approval, under SpecApproval and SpecReject *)

\* The error the page gets for an error e raised on the host: its message is
\* e's, or e's name when e has no message.
PageError(e) == <<"error", "Error", IF e[3] = "" THEN e[2] ELSE e[3]>>

FirstActDelivered(call) ==
    IF call.first.op = "resolve"
    THEN call.status = "resolved" /\ call.value = call.first.arg
    ELSE call.status = "rejected" /\ call.value = PageError(call.first.arg)

\* Neither resolve nor reject has been called on the request of this call.
NeitherCalled(call) ==
    \/ call.first = NoAct
    \/ call.first.op = "throw" /\ ~call.ignoredAct

\* C7 as stated: the first call of resolve or reject decides the outcome, and
\* a request on which neither is called leaves its dispatch pending.
C7_AsStated ==
    \A i \in 1..Len(calls) :
        calls[i].kind = "approval" =>
            /\ NeitherCalled(calls[i]) => calls[i].status = "pending"
            /\ calls[i].first.op \in {"resolve", "reject"} => FirstActDelivered(calls[i])

C7_Step ==
    \A i \in 1..Len(calls) :
        Settled(calls[i]) =>
            /\ calls'[i].status = calls[i].status
            /\ calls'[i].value = calls[i].value

C7_Inv ==
    \A i \in 1..Len(calls) :
        calls[i].kind = "approval" =>
            /\ calls[i].first = NoAct => calls[i].status = "pending"
            /\ calls[i].first # NoAct => FirstActDelivered(calls[i])

\* C7 (amended): the first act on a TxRequest - resolve, reject, or a listener
\* throwing out of the emit - decides the outcome of its dispatch; no later
\* resolve or reject changes what the page got; and a request nobody has acted
\* on leaves its dispatch pending.
C7_FirstActWins == [][C7_Step]_vars /\ []C7_Inv

\* A request was resolved and then acted on again: the page kept the value.
\* Another was settled by a throwing listener and then acted on.
C7_Witness ==
    \E i, j \in 1..Len(calls) :
        /\ calls[i].first.op = "resolve" /\ calls[i].ignoredAct
        /\ calls[i].status = "resolved" /\ calls[i].value = calls[i].first.arg
        /\ calls[j].first.op = "throw" /\ calls[j].ignoredAct
        /\ calls[j].status = "rejected"

\* C4 as stated: after reject(error) on a pending request the page gets an
\* error with the approver's message, and the signer has not run.
C4_AsStated ==
    \A i \in 1..Len(calls) :
        (calls[i].kind = "approval" /\ calls[i].first.op = "reject") =>
            /\ calls[i].status = "rejected"
            /\ calls[i].value[3] = calls[i].first.arg[3]
            /\ calls[i].signerRuns = 0
            /\ ~calls[i].approverSigned

\* C4 (amended): after reject(error) on a pending request the dispatch fails,
\* the page gets an error whose message is the approver's message, or the
\* error's name when that message is empty, and the dispatcher has not called
\* sign() nor returned a signature.
C4_RejectReachesPage ==
    \A i \in 1..Len(calls) :
        (calls[i].kind = "approval" /\ calls[i].first.op = "reject") =>
            /\ calls[i].status = "rejected"
            /\ calls[i].value = PageError(calls[i].first.arg)
            /\ calls[i].signerRuns = 0
            /\ calls[i].signed = NoOutcome

\* One request was rejected with "User denied" after the approver had run
\* request.sign(), another with an error without a message.
C4_Witness ==
    \E i, j \in 1..Len(calls) :
        /\ calls[i].first = Act("reject", Err("Error", "User denied"))
        /\ calls[i].approverSigned
        /\ calls[i].value = Err("Error", "User denied")
        /\ calls[j].first = Act("reject", Err("Error", ""))
        /\ calls[j].value = Err("Error", "Error")

----------------------------------------------------------------------------
(* Properties of the forwarded case, under SpecForward *)

C5_Inv ==
    \A i \in 1..Len(calls) :
        LET c == calls[i]
        IN  c.method \notin LocalMethods \cup SigningMethods =>
                /\ Cardinality(PostsOf(i)) = 1
                /\ \A k \in PostsOf(i) :
                        /\ posts[k].url = config.chain.rpc
                        /\ posts[k].httpMethod = "POST"
                        /\ posts[k].body.jsonrpc = "2.0"
                        /\ posts[k].body.id = 1
                        /\ posts[k].body.method = c.method
                        /\ posts[k].body.params = IF c.params = <<"undefined">> THEN <<"array">> ELSE c.params
                /\ RequestsOf(i) = {}
                /\ (c.response.kind = "object" /\ c.response.error = BOOM) =>
                        c.status = "rejected" /\ c.value = Err("Error", BOOM[2])
                /\ (c.response.kind = "object" /\ c.response.error \in {Absent, Null}
                        /\ c.response.result # Absent) =>
                        c.status = "resolved" /\ c.value = c.response.result

C5_Step == (Len(calls') = Len(calls)) => posts' = posts

\* C5: a method the switch does not enumerate is posted to chain.rpc exactly
\* once, as {jsonrpc: '2.0', id: 1, method, params or []}, also when the call
\* then fails; it emits no TxRequest; the page gets the result field of the
\* response, or an error carrying the stringified error field.
C5_ForwardedOnce == [][C5_Step]_vars /\ []C5_Inv

\* A call without params was posted with params [] and returned the result;
\* another was answered with an error and rejected with it, without a retry.
C5_Witness ==
    \E i, j \in 1..Len(calls) :
        /\ calls[i].params = Undefined /\ calls[i].status = "resolved"
        /\ calls[i].value = Str("0x10")
        /\ \E k \in PostsOf(i) : posts[k].body.params = EmptyArray
        /\ calls[j].method = "eth_getBalance" /\ calls[j].status = "rejected"
        /\ calls[j].value = Err("Error", BOOM[2])
        /\ Cardinality(PostsOf(j)) = 1

\* C6: a forwarded call whose response is not valid JSON, or is a JSON object
\* with neither a result nor an error field, is rejected.
C6_MalformedResponseFails ==
    \A i \in 1..Len(calls) :
        LET c == calls[i]
        IN  (c.kind = "forward" /\
                (\/ c.response.kind = "notjson"
                 \/ (c.response.kind = "object" /\ c.response.result = Absent
                        /\ c.response.error = Absent))) =>
                c.status = "rejected"

----------------------------------------------------------------------------
(* Properties of __submitCapture, under SpecCapture *)

\* The positions of invocation i's steps that emit `event`.
EmitsOf(i, event) ==
    {k \in 1..Len(submits[i].steps) :
        submits[i].steps[k].op = "emit" /\ submits[i].steps[k].event = event}

Answered(i) == submits[i].status # "fetching" /\ submits[i].response.kind = "text"

\* C11: every invocation the upstream has answered emitted 'capture:submitted'
\* exactly once, carrying the raw response text, and 'capture:claimUrl' at most
\* once, whatever the response and whatever the listeners did.
C11_SubmittedExactlyOnce ==
    \A i \in 1..Len(submits) :
        Answered(i) =>
            /\ Cardinality(EmitsOf(i, "capture:submitted")) = 1
            /\ \A k \in EmitsOf(i, "capture:submitted") :
                    submits[i].steps[k].arg = <<"string", submits[i].response.text>>
            /\ Cardinality(EmitsOf(i, "capture:claimUrl")) <= 1

\* C12: within one invocation 'capture:submitted' is emitted before every
\* 'capture:claimUrl' and 'capture:nextId', and every emission precedes the
\* return of the text.
C12_SubmittedFirst ==
    \A i \in 1..Len(submits) :
        /\ \A k \in EmitsOf(i, "capture:claimUrl") \cup EmitsOf(i, "capture:nextId") :
                \E j \in EmitsOf(i, "capture:submitted") : j < k
        /\ \A k \in 1..Len(submits[i].steps) :
                submits[i].steps[k].op = "return" => k = Len(submits[i].steps)

\* C13: the 'capture:submitted' events appear on the bus in the order in which
\* their invocations were made.
C13_SubmittedInCallOrder ==
    \A a, b \in 1..Len(capEvents) :
        /\ a < b
        /\ capEvents[a].event = "capture:submitted"
        /\ capEvents[b].event = "capture:submitted"
        => capEvents[a].inv < capEvents[b].inv

\* C14: for a body that parses as JSON, 'capture:claimUrl' is emitted with the
\* claimUrl field iff the field is present, 'capture:nextId' with the
\* nextCaptureId field iff that is present, and the regex is not consulted; for
\* a body that does not parse, the only possible emission besides
\* 'capture:submitted' is 'capture:claimUrl' with the first figma.com token.
C14_ParseThenFallback ==
    \A i \in 1..Len(submits) :
        Answered(i) =>
            LET data == JsonParse(submits[i].response.text)
                st == submits[i].steps
            IN  IF data.kind # "SyntaxError"
                THEN /\ ~submits[i].regex
                     /\ EmitsOf(i, "capture:claimUrl") # {} <=> data.claimUrl # <<"absent">>
                     /\ EmitsOf(i, "capture:nextId") # {} <=> data.nextCaptureId # <<"absent">>
                     /\ \A k \in EmitsOf(i, "capture:claimUrl") : st[k].arg = data.claimUrl
                     /\ \A k \in EmitsOf(i, "capture:nextId") : st[k].arg = data.nextCaptureId
                ELSE /\ EmitsOf(i, "capture:nextId") = {}
                     /\ \A k \in EmitsOf(i, "capture:claimUrl") :
                            st[k].arg = FigmaUrlMatch(submits[i].response.text)

----------------------------------------------------------------------------
(* Properties of injectCaptureToolbar and the fetch interposer *)

\* The fetches made through an installed interposer.
Interposed == {f \in 1..Len(fetches) : fetches[f].layers >= 1}

\* C15: however often the toolbar has been injected into a document, its
\* window.fetch is at most one wrapper over the native fetch (exactly one once
\* a patch has run), the wrapper's saved original is the native fetch, and a
\* fetch of an mcp.figma.com URL made through it causes exactly one
\* __submitCapture call.
C15_OneInterposerLayer ==
    /\ Len(window.wrappers) <= 1
    /\ window.fetchPatched <=> window.patchRuns >= 1
    /\ window.patchRuns >= 1 =>
            /\ Len(window.wrappers) = 1
            /\ window.fetch = Wrapper(1)
            /\ window.wrappers[1].originalFetch = NATIVE
    /\ \A f \in Interposed :
            /\ fetches[f].layers = 1
            /\ fetches[f].url = SUBMIT_URL =>
                    Cardinality({j \in 1..Len(submits) : fetches[f].submit = j}) = 1
    /\ Len(submits) = Cardinality({f \in 1..Len(fetches) : fetches[f].submit # 0})

C15_Witness ==
    /\ window.patchRuns >= 2
    /\ \E f \in Interposed : fetches[f].doc = window.doc /\ fetches[f].submit # 0

\* C17 (as stated): an invocation whose retrieval of the script failed has
\* evaluated nothing in the page and has not run the patch, and when it ends
\* it ends by returning {success: false, error}; an invocation that evaluated,
\* patched or returned success retrieved the script.
C17_FailedRetrievalLeavesPage ==
    \A i \in 1..Len(injects) :
        /\ injects[i].got.kind # "none" /\ ~Retrieved(injects[i].got) =>
                /\ ~injects[i].evaluated
                /\ ~injects[i].patched
                /\ injects[i].pc \in {"returned", "rejected"} =>
                        /\ injects[i].pc = "returned"
                        /\ ~injects[i].result.success
                        /\ injects[i].result.error[1] = "string"
        /\ injects[i].evaluated \/ injects[i].patched \/ injects[i].result.success =>
                Retrieved(injects[i].got)

\* The URL a fetch argument names contains `piece`, whatever its type.
NamesHost(url, piece) == \E k \in 2..Len(url) : url[k] = piece

RoutedOnce(f) ==
    /\ fetches[f].submit # 0
    /\ fetches[f].native = <<>>
    /\ submits[fetches[f].submit].targetUrl = fetches[f].url
    /\ submits[fetches[f].submit].dataStr = BodyOf(fetches[f].opts)
    /\ \A g \in 1..Len(fetches) : fetches[g].submit = fetches[f].submit => g = f

Delegated(f) ==
    /\ fetches[f].submit = 0
    /\ fetches[f].native = <<[url |-> fetches[f].url, opts |-> fetches[f].opts]>>

AnsweredWithText(f) ==
    LET sb == submits[fetches[f].submit]
        ans == InterposerAnswer(sb)
    IN  /\ ans.kind = "response"
        /\ ans.status = 200
        /\ ans.contentType = "application/json"
        /\ sb.steps[Len(sb.steps)] = Returned(ans.body)

----------------------------------------------------------------------------
(* Properties of the provider announcement, under SpecAnnounce *)

AnnouncedIn(doc) == {k \in 1..Len(announced) : announced[k].doc = doc}

\* C20: in every document the announcements dispatched so far are one per
\* 'eip6963:requestProvider' event the page has dispatched (made inside that
\* dispatch) plus the one of the load timer once it has fired, whether or not
\* a request came first; each is an 'eip6963:announceProvider' event whose
\* detail is frozen and holds the info and the provider installed as
\* window.ethereum.
C20_AnnouncedPerRequestAndOnLoad ==
    /\ Cardinality(AnnouncedIn(window.doc))
            = window.requests + (IF window.timer = "fired" THEN 1 ELSE 0)
    /\ Cardinality({k \in AnnouncedIn(window.doc) : announced[k].trigger = "request"})
            = window.requests
    /\ window.requests >= 1 /\ window.timer = "fired" => Cardinality(AnnouncedIn(window.doc)) >= 2
    /\ \A k \in AnnouncedIn(window.doc) :
            /\ announced[k].type = "eip6963:announceProvider"
            /\ announced[k].frozen
            /\ announced[k].info = INFO
            /\ announced[k].provider = window.ethereum
            /\ announced[k].provider # 0

C20_Witness ==
    /\ window.requests >= 1
    /\ window.timer = "fired"
    /\ announced[Len(announced)].trigger = "request"
    /\ \E k \in AnnouncedIn(window.doc) : announced[k].trigger = "timer"

----------------------------------------------------------------------------
(* Properties of the browser runtime, under SpecSession *)

IsPrefix(a, b) == Len(a) <= Len(b) /\ a = SubSeq(b, 1, Len(a))

\* C18: the operations launchBrowser has completed on the context are an
\* initial part of: register __rpcProxy, register __submitCapture, install the
\* popup observer, install the init script, create the page, navigate; and
\* while a page or a document exists, both functions, the observer and the
\* init script are in place (so the document carries the provider).
C18_WiredBeforeAnyPage ==
    /\ IsPrefix(SelectSeq(launch.done, LAMBDA st : st \notin {"launch", "newContext"}),
                <<"exposeRpcProxy", "exposeSubmitCapture", "interceptFigmaPopups",
                  "addInitScript", "newPage", "goto">>)
    /\ IsPrefix(context.bindings, <<"__rpcProxy", "__submitCapture">>)
    /\ window.doc > 0 => context.pages > 0
    /\ context.pages > 0 =>
            /\ context.bindings = <<"__rpcProxy", "__submitCapture">>
            /\ context.popupObserver
            /\ context.initScripts > 0
    /\ window.doc > 0 => window.ethereum # 0 /\ window.requestListeners > 0

C18_Witness ==
    /\ launch.status = "resolved"
    /\ context.pages = 1
    /\ window.doc = 1

\* C19: onComplete is called at most once; it has been called exactly once as
\* soon as the quit key was handled, and as soon as the browser of a launched
\* session has disconnected, whoever closed it; the browser disconnects once.
C19_TerminalEventOnce ==
    /\ Len(completions) <= 1
    /\ screen.completedRef <=> Len(completions) = 1
    /\ screen.lastKey = "q" => Len(completions) = 1
    /\ screen.sessionRef /\ browser.state = "closed" => Len(completions) = 1
    /\ browser.disconnects <= 1

\* The quit key closed the browser of a launched session and the screen was
\* still mounted when 'disconnected' arrived.
C19_Witness ==
    /\ screen.sessionRef
    /\ screen.mounted
    /\ screen.lastKey = "q"
    /\ browser.state = "closed"
    /\ Len(completions) = 1

----------------------------------------------------------------------------
(* Properties of the provider's listeners, under SpecListeners *)

\* How often emit has called the function passed to the k-th call, a once.
InvocationsOf(k) == Cardinality({n \in 1..Len(invoked) : invoked[n].wrapper = k})

C21_Inv ==
    \A k \in 1..Len(ethCalls) : ethCalls[k].op = "once" => InvocationsOf(k) <= 1

C21_Step ==
    (Len(ethCalls') = Len(ethCalls) + 1 /\ ethCalls'[Len(ethCalls')].op = "removeListener")
    => LET c == ethCalls'[Len(ethCalls')]
       IN  /\ ethListeners'[c.event] = SelectSeq(ethListeners[c.event], LAMBDA x : x # Fn(c.fn))
           /\ \A e \in ProviderEvents \ {c.event} : ethListeners'[e] = ethListeners[e]

\* C21 (as stated): a callback registered with once(event, fn) is invoked at
\* most once over any sequence of emit(event) calls, re-entrant ones included;
\* removeListener(event, fn) removes exactly the entries identical to fn and
\* leaves every other listener and every other event's listeners unchanged.
C21_OnceInvokedAtMostOnce == []C21_Inv /\ [][C21_Step]_vars

----------------------------------------------------------------------------
(* Properties of sendAsync and send, under SpecSend *)

\* cb(null, {id: payload.id, jsonrpc: '2.0', result}) and cb(error)
ResultForm(payload, result) ==
    [error |-> Null, response |-> <<"object", PayloadId(payload), "2.0", result>>]
ErrorForm(error) == [error |-> error, response |-> Undefined]

\* C22 (as stated): for every sendAsync(payload, cb) the callback is invoked
\* exactly once, with (null, {id, jsonrpc, result}) if the request resolved
\* and with (error) alone if it rejected, never both and never twice whatever
\* the callback does; send(m, p) is request({method: m, params: p}) for a
\* string m and sendAsync(m, p) otherwise.
C22_CallbackExactlyOnce ==
    \A k \in 1..Len(sends) :
        LET s == sends[k]
            c == calls[s.call]
        IN  /\ s.state = "waiting" => s.cbCalls = <<>>
            /\ (s.via = "sendAsync" /\ s.state = "done") =>
                    s.cbCalls = IF c.status = "resolved"
                                THEN <<ResultForm(s.payload, c.value)>>
                                ELSE <<ErrorForm(c.value)>>
            /\ s.payload[1] = "string" =>
                    s.via = "request" /\ c.method = s.payload[2] /\ s.cbCalls = <<>>
            /\ s.payload[1] = "object" =>
                    s.via = "sendAsync" /\ c.method = PayloadMethod(s.payload)

----------------------------------------------------------------------------
(* Properties of the wallet store, under SpecStore *)

WellFormedFile(file) ==
    \/ file.kind = "absent"
    \/ /\ file.kind = "json"
       /\ file.type = "array"
       /\ \A n \in 1..Len(file.items) : file.items[n].type = "wallet"

\* C23: create(name) and import(name, key) add exactly one wallet, named as
\* asked, at the end of the persisted array and leave the earlier entries and
\* their order as they were; delete(address) removes every entry with that
\* address and leaves the others and their order as they were.
C23_AppendOnlyExceptDelete ==
    \A n \in 1..Len(storeOps) :
        LET o == storeOps[n]
        IN  /\ (o.op \in {"create", "import"} /\ o.kind = "return") =>
                    /\ Len(o.value.items) = 1
                    /\ o.value.items[1].name = o.name
                    /\ o.value.items[1].privateKey = o.key
                    /\ o.after = FileJson("array", WalletsOf(o.before) \o o.value.items)
            /\ (o.op = "create" /\ WellFormedFile(o.before)) => o.kind = "return"
            /\ (o.op = "import" /\ WellFormedFile(o.before) /\ OnCurve(o.key)) => o.kind = "return"
            /\ (o.op = "delete" /\ o.kind = "return") =>
                    o.after = FileJson("array",
                                SelectSeq(WalletsOf(o.before), LAMBDA w : w.address # o.address))
            /\ (o.op = "delete" /\ WellFormedFile(o.before)) => o.kind = "return"

\* A delete removed two entries of three and a create then appended to the rest.
C23_Witness ==
    /\ Len(storeOps) = 2
    /\ storeOps[1].op = "delete"
    /\ Len(WalletsOf(storeOps[1].before)) = 3
    /\ Len(WalletsOf(storeOps[1].after)) = 1
    /\ storeOps[2].op = "create"
    /\ storeOps[2].kind = "return"
    /\ Len(WalletsOf(walletFile)) = 2

\* C24 (as stated): every wallet a store operation returns has a private key
\* of the form 0x + 64 hex digits and the address derived from it; import
\* rejects every other key with the invalid-input error and leaves the file.
C24_ReturnedWalletsAreValid ==
    \A n \in 1..Len(storeOps) :
        LET o == storeOps[n]
        IN  /\ (o.op \in {"load", "create", "import", "createEphemeral"} /\ o.kind = "return") =>
                    /\ o.value.type = "array"
                    /\ \A k \in 1..Len(o.value.items) :
                            /\ o.value.items[k].type = "wallet"
                            /\ MatchesKeyPattern(o.value.items[k].privateKey)
                            /\ o.value.items[k].address = DeriveAddress(o.value.items[k].privateKey)
            /\ (o.op = "import" /\ ~MatchesKeyPattern(o.key)) =>
                    o.kind = "throw" /\ o.error = INVALID_KEY /\ o.after = o.before

\* C25 (as stated): with a file that is unreadable, no JSON or no array of
\* wallets, every operation that reads it fails with the corruption error and
\* leaves the file as it was.
C25_MalformedFileIsReported ==
    \A n \in 1..Len(storeOps) :
        LET o == storeOps[n]
            reads == \/ o.op \in {"load", "create", "delete"}
                     \/ o.op = "import" /\ OnCurve(o.key)
        IN  (reads /\ o.before.kind # "absent" /\ ~WellFormedFile(o.before)) =>
                o.kind = "throw" /\ o.error = CORRUPT /\ o.after = o.before

----------------------------------------------------------------------------
(* Properties of the workflow, under SpecWizard *)

LowerHexValue(c) == CHOOSE d \in 0..15 : HexChar[d + 1] = c
IsLowerHex(c) == \E d \in 0..15 : HexChar[d + 1] = c

RECURSIVE ValueOfHex(_, _)
ValueOfHex(chars, acc) ==
    IF chars = <<>> THEN acc
    ELSE ValueOfHex(Tail(chars), 16 * acc + LowerHexValue(Head(chars)))

\* hexId is '0x' followed by the lowercase hexadecimal numeral of id.
IsHexIdOf(hexId, id) ==
    /\ Len(hexId) >= 3
    /\ hexId[1] = "0" /\ hexId[2] = "x"
    /\ hexId[3] # "0"
    /\ \A n \in 3..Len(hexId) : IsLowerHex(hexId[n])
    /\ ValueOfHex(SubSeq(hexId, 3, Len(hexId)), 0) = id

\* The text, leading blanks aside, is a decimal numeral of a positive number
\* and nothing else.
IsPositiveNumeral(text) ==
    LET t == TrimStart(text)
    IN  /\ t # <<>>
        /\ \A n \in 1..Len(t) : IsDigit(t[n])
        /\ LeadingDigits(t, 0) > 0

ValidChain(chain) ==
    /\ chain.id \in Nat \ {0}
    /\ IsHexIdOf(chain.hexId, chain.id)
    /\ IsHttpUrl(chain.rpc)

\* ChainPicker hands a chain built through the custom path to App.
CustomChainHandedOver ==
    /\ app.screen = "chain"
    /\ wizard.subScreen = "customRpc"
    /\ app'.chain # app.chain

C27_CustomStep ==
    CustomChainHandedOver =>
        /\ IsPositiveNumeral(wizard.customId)
        /\ app'.chain.id = LeadingDigits(TrimStart(wizard.customId), 0)
        /\ IsHttpUrl(app'.chain.rpc)

\* C27: every chain handed to the session, from the registry or through the
\* custom path, has a positive integer id, hexId '0x' followed by the lowercase
\* hexadecimal of id and an http(s) rpc; the custom path hands over a chain
\* only when the entered id is a positive number and the RPC URL is http(s),
\* and the chain's id is the entered one.
C27_ChainsAreValid ==
    /\ [](\A n \in 1..Len(Registry) : ValidChain(Registry[n]))
    /\ [](app.chain.type = "chain" => ValidChain(app.chain))
    /\ [][C27_CustomStep]_vars

\* The createEphemeral operations done so far.
EphemeralOps == {n \in 1..Len(storeOps) : storeOps[n].op = "createEphemeral"}

\* The session runs with the wallet operation n returned.
SessionUses(n) ==
    /\ app.screen \in {"browser", "result"}
    /\ app.wallet = storeOps[n].value.items[1]
    /\ config.address = storeOps[n].value.items[1].address

\* C26: createEphemeral leaves the wallet file as it found it, absent or with
\* the same contents, and the key of the wallet it returned is in no entry of
\* the file, then and for as long as the workflow and the session with that
\* wallet run.
C26_EphemeralNeverPersisted ==
    \A n \in EphemeralOps :
        /\ storeOps[n].kind = "return"
        /\ storeOps[n].after = storeOps[n].before
        /\ storeOps[n].key \notin KeysIn(storeOps[n].after)
        /\ storeOps[n].key \notin KeysIn(walletFile)
        /\ walletFile = storeOps[n].after

\* A first run created a wallet, the user then chose an ephemeral one and the
\* session with it has run to its result.
C26_Witness ==
    /\ \E n \in EphemeralOps : n = 2 /\ SessionUses(n) /\ Len(storeOps[n].before.items) = 1
    /\ app.screen = "result"
    /\ launch.status = "resolved"

\* The order in which the screens before the session complete.
LaunchedInOrder == app.completed = WorkflowOrder \/ app.completed = Append(WorkflowOrder, "browser")

EndpointOf(captureId) ==
    Text(<<"https://", "mcp.figma.com", "/mcp/capture/", captureId, "/submit">>)

C28_Inv ==
    /\ (launch.status # "idle" \/ screen.mounted \/ app.screen \in {"browser", "result"}) =>
            /\ LaunchedInOrder
            /\ Len(app.launchedWith) = 1
    /\ app.launchedWith # <<>> =>
            LET cfg == app.launchedWith[1]
            IN  /\ cfg.wallet.type = "wallet"
                /\ cfg.chain.type = "chain"
                /\ IsHttpUrl(cfg.url)
                /\ cfg.captureId \in CaptureIds
                /\ cfg.figmaEndpoint = EndpointOf(cfg.captureId)
                /\ ConfigOf(app) = cfg
                /\ config = [address |-> cfg.wallet.address, chain |-> cfg.chain]
    /\ \A n \in 1..Len(app.completed) : n <= Len(WorkflowOrder) => app.completed[n] = WorkflowOrder[n]

C28_Step ==
    app.launchedWith # <<>> =>
        /\ app'.launchedWith = app.launchedWith
        /\ ConfigOf(app') = ConfigOf(app)
        /\ config' = config

\* C28: BrowserSession is mounted only after the wallet, chain, URL, Figma
\* destination and capture id screens completed, in that order; the config it
\* is launched with has a wallet, a chain, an http(s) url and the figmaEndpoint
\* 'https://mcp.figma.com/mcp/capture/<captureId>/submit' of its own captureId,
\* and no field of it changes while the session runs.
C28_SessionAfterWorkflow == []C28_Inv /\ [][C28_Step]_vars

\* A session launched with a custom chain and the second capture id, in which
\* the page asked to switch chains, has ended and App shows the result.
C28_Witness ==
    /\ app.screen = "result"
    /\ app.launchedWith[1].chain.id = 255
    /\ app.launchedWith[1].captureId = "0b7e"
    /\ app.launchedWith[1].wallet.name = "Imported Wallet"
    /\ \E n \in 1..Len(calls) : calls[n].method = "wallet_switchEthereumChain"

----------------------------------------------------------------------------
(* Properties of the session log, under SpecLog *)

\* The log files that exist.
LogFileNames == {name \in DOMAIN logFiles : logFiles[name] # <<>>}

LineRecords(line, kind) == line.text[1] = kind

\* The last lines of the file record the end of the session and its duration.
EndsWithSummary(lines) ==
    /\ Len(lines) >= 2
    /\ LineRecords(lines[Len(lines) - 1], "Session ended: ")
    /\ LineRecords(lines[Len(lines)], "Duration: ")

\* C29: in every session log file every line is '[<iso-timestamp>] <message>',
\* the first line records the start of the session, and once the session has
\* been ended the last lines record its end and its duration.
C29_LogFileFormat ==
    \A name \in LogFileNames :
        /\ \A n \in 1..Len(logFiles[name]) : logFiles[name][n].stamped
        /\ LineRecords(logFiles[name][1], "Session started: ")
        /\ (name \in logger.ended /\ ~(logger.active /\ logger.sessionFile = name)) =>
                EndsWithSummary(logFiles[name])

----------------------------------------------------------------------------
(* Properties of the popup observer, under SpecPopups *)

\* The URL is one of figma.com: an http(s) URL whose host is figma.com or a
\* subdomain of it.
IsFigmaUrl(url) ==
    /\ Len(url) >= 3
    /\ url[2] \in {"https://", "http://"}
    /\ \/ url[3] = "figma.com"
       \/ Len(url) >= 4 /\ url[3] = "www." /\ url[4] = "figma.com"

FigmaUrlEventsAt(n) ==
    {e \in 1..Len(capEvents) : capEvents[e].event = "capture:figmaUrl" /\ capEvents[e].at = n}

\* C30: the observer emits 'capture:figmaUrl', with the URL, once for every new
\* page that opens on a figma.com URL and for every main-frame navigation of
\* such a page to a figma.com URL, and emits nothing for about:blank, for a URL
\* that is not a figma.com URL or for the navigation of a sub-frame.
C30_EmitsForFigmaUrlsOnly ==
    \A n \in 1..Len(popups) :
        IF popups[n].main /\ IsFigmaUrl(popups[n].url)
        THEN \E e \in FigmaUrlEventsAt(n) :
                /\ FigmaUrlEventsAt(n) = {e}
                /\ capEvents[e].url = popups[n].url
        ELSE FigmaUrlEventsAt(n) = {}

\* The host has closed the popup of observation n: its handler called
\* popup.close(), or the session's browser was closed.
HostClosed(n) == popups[n].closed \/ browser.state # "open"

\* C31: every popup for which the observer emitted 'capture:figmaUrl' has been
\* closed by the host once the handler that extracted and emitted its URL has
\* run.
C31_FigmaPopupsAreClosed ==
    \A n \in 1..Len(popups) : FigmaUrlEventsAt(n) # {} => HostClosed(n)

----------------------------------------------------------------------------
(* Properties of what the approver is shown, under SpecMessages and SpecDisplay *)

\* The requests emitted for a method.
RequestsFor(method) == {r \in 1..Len(bus) : bus[r].method = method}

\* The text is 0x followed by a whole number of bytes, at least one, in
\* hexadecimal digits.
IsHexPayload(chars) ==
    /\ Len(chars) >= 4
    /\ chars[1] = "0" /\ chars[2] = "x"
    /\ Len(chars) % 2 = 0
    /\ \A n \in 3..Len(chars) : Nibble(chars[n]) < 16

\* The bytes of a hex payload.
PayloadBytes(chars) ==
    [n \in 1..((Len(chars) - 2) \div 2) |-> 16 * Nibble(chars[2 * n + 1]) + Nibble(chars[2 * n + 2])]

PrintableByte(b) == (b >= 32 /\ b <= 126) \/ b \in {9, 10, 13}

\* The payload is one whose decoding is shown.
Decodable(payload) ==
    /\ payload[1] = "string"
    /\ IsHexPayload(Chars(payload[2]))
    /\ \A n \in 1..Len(PayloadBytes(Chars(payload[2]))) : PrintableByte(PayloadBytes(Chars(payload[2]))[n])

\* C32: the display.message of a personal_sign request is the decoding of the
\* hex payload exactly when the payload is 0x-prefixed hex whose bytes are all
\* printable or tab, CR or LF; for every other payload it is the payload
\* itself, unchanged.
C32_MessageDecodedWhenPrintableHex ==
    \A r \in RequestsFor("personal_sign") :
        LET payload == Item(bus[r].params, 1)
        IN  IF Decodable(payload)
            THEN bus[r].display.message = <<"text", PayloadBytes(Chars(payload[2]))>>
            ELSE bus[r].display.message = payload

\* floor((length - 2) / 2)
HalfOfRest(length) == CHOOSE k \in (0 - 1)..length : 2 * k <= length - 2 /\ length - 2 < 2 * k + 2

FirstChars(chars, count) == [n \in 1..(IF Len(chars) < count THEN Len(chars) ELSE count) |-> chars[n]]

----------------------------------------------------------------------------
(* Properties of the end of a session, under SpecFinish *)

SubmittedEvents == {e \in 1..Len(capEvents) : capEvents[e].event = "capture:submitted"}

C34_Step ==
    Len(completions') > Len(completions) =>
        (completions'[Len(completions')].success <=> SubmittedEvents # {})

\* C34: when the session finishes, by the quit key or by the user closing the
\* browser window, the result handed to onComplete has success = true exactly
\* when a 'capture:submitted' event occurred during the session.
C34_SuccessIffSubmitted == [][C34_Step]_vars

----------------------------------------------------------------------------
(* Properties of the session the workflow starts, under SpecShipped *)

SigningCalls == {i \in 1..Len(calls) : calls[i].method \in SigningMethods}

\* C35: in a session the BrowserSession screen starts with its own emitter no
\* 'tx:request' listener is attached: the listener count is zero at every
\* signing dispatch, no approval request is ever emitted, and every
\* personal_sign, eth_signTypedData_v4 and eth_sendTransaction of the page
\* goes to the signer at once; a dispatch whose params the case cannot read
\* fails at once instead.
C35_ShippedSessionSignsImmediately ==
    /\ listeners = 0
    /\ bus = <<>>
    /\ requestIdCounter = 0
    /\ \A i \in SigningCalls :
            /\ ~calls[i].approver
            /\ calls[i].kind \in {"signing", "threw"}
            /\ WellFormed(calls[i].method, calls[i].params) =>
                    calls[i].kind = "signing" /\ calls[i].signerRuns = 1

\* The page had a message signed and sent a transaction in a launched
\* session, and both have settled.
C35_Witness ==
    /\ launch.status = "resolved"
    /\ \E i, j \in SigningCalls :
            /\ calls[i].method = "personal_sign"
            /\ calls[j].method = "eth_sendTransaction"
            /\ calls[i].kind = "signing" /\ calls[i].status # "pending"
            /\ calls[j].kind = "signing" /\ calls[j].status # "pending"

----------------------------------------------------------------------------
(* Typed data that is no JSON, under Spec *)

\* Call i is an eth_signTypedData_v4 whose second parameter JSON.parse rejects.
Unparseable(call) ==
    /\ call.method = "eth_signTypedData_v4"
    /\ call.params # Undefined
    /\ Item(call.params, 2) \notin {Str(t) : t \in JsonTexts}

C36_Inv ==
    \A i \in 1..Len(calls) :
        Unparseable(calls[i]) =>
            /\ calls[i].kind = "threw"
            /\ calls[i].status = "rejected"
            /\ calls[i].value[1] = "error" /\ calls[i].value[3] = "Unexpected token"
            /\ RequestsOf(i) = {}
            /\ calls[i].signerRuns = 0
            /\ calls[i].signed = NoOutcome
            /\ ~calls[i].approverSigned

C36_Step ==
    (Len(calls') = Len(calls) + 1 /\ Unparseable(calls'[Len(calls')])) =>
        /\ UNCHANGED <<requestIdCounter, bus, listeners, config, provider, provEmitted, posts>>
        /\ SubSeq(calls', 1, Len(calls)) = calls

\* C36: an eth_signTypedData_v4 dispatch whose second parameter is no JSON
\* fails with a string-message error before the approval decision, with or
\* without an approver attached: no TxRequest is emitted for it, the counter
\* is not advanced, the signer does not run, and the step changes nothing a
\* later dispatch depends on.
C36_UnparseableTypedDataFails == []C36_Inv /\ [][C36_Step]_vars

\* With an approver attached, typed data that is no JSON was refused and the
\* next dispatch got the first request id.
C36_Witness ==
    /\ Len(calls) = 2
    /\ Unparseable(calls[1]) /\ calls[1].approver
    /\ calls[2].kind = "approval"
    /\ RequestsOf(2) # {}
    /\ \A r \in RequestsOf(2) : bus[r].id = 1

----------------------------------------------------------------------------
(* Properties of provider.emit, under SpecEmit *)
MaxPageCalls == 4

\* A page that makes up to MaxPageCalls calls: it registers listeners for two
\* events, removes one and emits the first event, also from inside its
\* listeners, which return or throw.
PageCall ==
    \/ \E f \in Callbacks : ProviderOn("accountsChanged", f)
    \/ ProviderOn("chainChanged", "g")
    \/ ProviderOnce("accountsChanged", "f")
    \/ ProviderRemoveListener("accountsChanged", "g")
    \/ ProviderEmit("accountsChanged")

NextEmit ==
    \/ Len(ethCalls) < MaxPageCalls /\ PageCall
    \/ EmitCallsNext
    \/ ListenerReturns
    \/ ListenerThrows
    \/ EmitReturns

SpecEmit == Init /\ [][NextEmit]_vars


\* The invocations the emit made as the c-th call of the page has made.
InvokedBy(c) == SelectSeq(invoked, LAMBDA r : r.emit = c)

\* The function of an invocation was registered for the invocation's event,
\* by an on or by the once whose wrapper was called.
RegisteredFor(r) ==
    IF r.wrapper = 0
    THEN \E k \in 1..Len(ethCalls) :
            /\ ethCalls[k].op = "on"
            /\ ethCalls[k].event = r.event
            /\ ethCalls[k].fn = r.fn
    ELSE /\ ethCalls[r.wrapper].op = "once"
         /\ ethCalls[r.wrapper].event = r.event
         /\ ethCalls[r.wrapper].fn = r.fn

C37_Inv ==
    /\ \A k \in 1..Len(emitStack) :
         LET fr == emitStack[k]
             mine == InvokedBy(fr.call)
         IN  /\ Len(mine) = fr.i
             /\ fr.i <= Len(fr.arr)
             /\ \A n \in 1..Len(mine) :
                    /\ mine[n].fn = fr.arr[n][2]
                    /\ mine[n].wrapper = fr.arr[n][3]
                    /\ mine[n].event = fr.event
    /\ \A n \in 1..Len(invoked) :
         /\ invoked[n].outcome # "escaped"
         /\ RegisteredFor(invoked[n])
         /\ ethCalls[invoked[n].emit].op = "emit"
         /\ ethCalls[invoked[n].emit].event = invoked[n].event

C37_Step ==
    LET old == Len(emitStack)
        new == Len(emitStack')
        both == IF old < new THEN old ELSE new
    IN  /\ new \in {old - 1, old, old + 1}
        \* emit starts on the listeners the event has now
        /\ new = old + 1 =>
              /\ emitStack'[new].arr = ethListeners[emitStack'[new].event]
              /\ emitStack'[new].i = 0
              /\ invoked' = invoked
        \* emit returns when it has called every one of them
        /\ new = old - 1 =>
              /\ emitStack[old].i = Len(emitStack[old].arr)
              /\ emitStack[old].cur = 0
              /\ invoked' = invoked
        \* nothing the page does in between changes what an emit in progress
        \* calls, and an emit goes on one listener at a time
        /\ \A k \in 1..both :
              /\ emitStack'[k].arr = emitStack[k].arr
              /\ emitStack'[k].event = emitStack[k].event
              /\ emitStack'[k].call = emitStack[k].call
              /\ emitStack'[k].i \in {emitStack[k].i, emitStack[k].i + 1}
              /\ k < both => emitStack'[k] = emitStack[k]

\* C37: provider.emit(event) invokes the listeners the event has when emit
\* starts, each once and in registration order, whatever the listeners do
\* (throw, remove themselves or others, register, emit); a throw ends in
\* emit's own catch and emit goes on; no listener of another event is invoked.
C37_EmitCallsRegisteredListeners == []C37_Inv /\ [][C37_Step]_vars

\* An emit has returned after calling two listeners: the first removed the
\* second while it ran and then threw, and the second was called all the
\* same and returned.
C37_Witness ==
    /\ emitStack = <<>>
    /\ \E c \in 1..Len(ethCalls) :
         /\ ethCalls[c].op = "emit"
         /\ Len(InvokedBy(c)) = 2
         /\ InvokedBy(c)[1].fn = "f"
         /\ InvokedBy(c)[1].outcome = "caught"
         /\ InvokedBy(c)[2].fn = "g"
         /\ InvokedBy(c)[2].outcome = "returned"
         /\ \E k \in 1..Len(ethCalls) :
                /\ ethCalls[k].op = "removeListener"
                /\ ethCalls[k].event = ethCalls[c].event
                /\ ethCalls[k].fn = "g"
                /\ ethCalls[k].by # 0
                /\ invoked[ethCalls[k].by].emit = c
                /\ invoked[ethCalls[k].by].fn = "f"

----------------------------------------------------------------------------
(* The setup wizard on a first run, under SpecSetup *)

\* App has found no marker (isFirstRun) and has mounted SetupWizard.
InitSetup ==
    /\ RpcInit({NoConfig})
    /\ submits = <<>>
    /\ capEvents = <<>>
    /\ context = EmptyContext
    /\ window = NoWindow
    /\ announced = <<>>
    /\ fetches = <<>>
    /\ injects = <<>>
    /\ launch = NotCalled
    /\ browser = [state |-> "none", disconnects |-> 0]
    /\ screen = NotMounted
    /\ completions = <<>>
    /\ EthInit
    /\ StoreInit(WrittenFiles \cup {FileGarbage, FileJson("object", <<>>), FileJson("null", <<>>)})
    /\ wizard = SetupWizardState
    /\ app = AppState("setup")
    /\ setupMarker = FALSE
    /\ LogInit
    /\ PopupInit

NextSetup ==
    \/ \E major \in NodeMajors : SetupEffect(major)
    \/ \E found \in BOOLEAN : ChromiumChecked(found)
    \/ \E ok \in BOOLEAN : ClaudeChecked(ok)
    \/ \E has \in BOOLEAN : FigmaChecked(has)
    \/ \E input \in SetupKeys : SetupKey(input)
    \/ \E code \in {0, 1} : InstallCloses(code)
    \/ InstallErrors
    \/ SetupCompletes

SpecSetup == InitSetup /\ [][NextSetup]_vars

StatusOf(wz, n) == wz.checks[n].status

\* The checks as finish must find them: the four checks ok, Chromium found or
\* installed, the wallet found, created or skipped.
AllChecksPassed(wz) ==
    /\ \A n \in 1..4 : StatusOf(wz, n) = "ok"
    /\ wz.checks[2].detail \in {"Chromium found", "Chromium installed"}
    /\ wz.checks[5] \in {Ok("n wallet(s) found"), Ok("address"), Warn("Skipped")}

C38_Inv ==
    /\ setupMarker =>
          IF wizard.screen = "setup" THEN wizard.phase = "done" /\ AllChecksPassed(wizard)
          ELSE app.screen = "wallet"
    /\ app.screen # "setup" => setupMarker
    /\ (wizard.screen = "setup" /\ wizard.phase = "fatal") =>
          /\ ~setupMarker
          /\ wizard.timer = "none"
          /\ wizard.pc = "returned"
          /\ \E n \in 1..4 : StatusOf(wizard, n) = "fail"

C38_Step ==
    /\ (setupMarker' /\ ~setupMarker) =>
          /\ wizard'.screen = "setup"
          /\ wizard'.phase = "done"
          /\ AllChecksPassed(wizard')
          /\ wizard.checks[2].detail = "Chromium installed" => wizard.install = "closed"
    /\ (wizard.screen = "setup" /\ wizard.phase = "fatal") =>
          /\ wizard'.screen = "setup"
          /\ wizard'.phase = "fatal"
          /\ UNCHANGED <<setupMarker, app, walletFile>>
          /\ wizard'.timer = "none"
          /\ wizard'.pc = wizard.pc
          /\ wizard.exited => wizard'.exited

\* C38: the wizard writes the setup marker only when the Node.js, Chromium,
\* Claude Code and Figma MCP checks are ok (Chromium found, or installed after
\* the user confirmed) and the wallet was found, created or skipped; from the
\* fatal phase on it writes no marker, arms no onComplete and stays fatal, and
\* a key only exits.
C38_MarkerOnlyAfterAllChecks == []C38_Inv /\ [][C38_Step]_vars

\* The marker is written after a confirmed Chromium install and a created wallet.
C38_Witness ==
    /\ setupMarker
    /\ wizard.screen = "setup"
    /\ wizard.checks[2].detail = "Chromium installed"
    /\ wizard.checks[5] = Ok("address")

----------------------------------------------------------------------------
(* The logger's module state, under SpecLog *)

\* The step starts a session: sessionFile was null and is set.
SessionOpens == ~logger.active /\ logger'.active

\* The step is a log() that found no session: it wrote the start line and
\* its own line.
LogOpensSession ==
    /\ SessionOpens
    /\ Len(logFiles'[logger'.sessionFile]) >= Len(logFiles[logger'.sessionFile]) + 2

C39_Inv ==
    \* lines are appended to the session file only
    /\ logger.active => logFiles[logger.sessionFile] # <<>>
    \* endSession() without a session does nothing
    /\ ~logger.active =>
          \A url \in {"", "https://www.figma.com/design/abc"} :
              endSession(logger, logFiles, logger.now, url) = [logger |-> logger, files |-> logFiles]
    \* getLogFile() is null exactly when no session is active
    /\ (getLogFile(logger) = Null) = ~logger.active

C39_Step ==
    \* a step that writes lines writes them to the file of the session that
    \* is active before or after it, and to no other file
    /\ \A name \in DOMAIN logFiles :
          logFiles'[name] # logFiles[name] =>
              \/ logger'.active /\ logger'.sessionFile = name
              \/ logger.active /\ logger.sessionFile = name
    \* a log() after endSession opens a fresh file that begins with the
    \* session-start line
    /\ (LogOpensSession /\ logger.ended # {}) =>
          /\ logFiles[logger'.sessionFile] = <<>>
          /\ LineRecords(logFiles'[logger'.sessionFile][1], "Session started: ")
    \* after endSession() getLogFile() is null
    /\ (logger.active /\ ~logger'.active) => getLogFile(logger') = Null

\* C39: every log() appends to an active session file, starting a session
\* when none is active, so that a log() after endSession opens a fresh file
\* that begins with a session-start line; endSession() without a session does
\* nothing, and after endSession() getLogFile() is null until the next
\* startSession() or log().
C39_LoggerStateSurvivesTeardown == []C39_Inv /\ [][C39_Step]_vars

====
